---- MODULE Spec2Model ----
(***************************************************************************)
(* Resume Workshop & Pathways (app.py): the text cleaners, the heuristic   *)
(* header parser, the denylist scrub, the document builders and the        *)
(* Generate click of the Streamlit page, as a state machine.               *)
(*                                                                         *)
(* Strings are TLA+ strings; a character is a string of length 1.  A       *)
(* position i in a string s counts the characters already consumed         *)
(* (0 .. Len(s)); the next character is At(s, i + 1).                      *)
(***************************************************************************)
EXTENDS Integers, Sequences, FiniteSets, TLC

VARIABLES
    ss,     \* st.session_state: the widget values of the page, by key
    tpl,    \* the resume template of this session: "missing", "valid", "broken"
    wd,     \* the values of the widgets that have no key, as the browser holds them
    ui,     \* what the last script run showed and built
    today,  \* datetime.date.today(), as strftime("%B %d, %Y") writes it
    call,   \* the function applied to arg ("" before the call)
    arg,    \* the argument of the call
    ret     \* the value the call returned

vars == <<ss, tpl, wd, ui, today, call, arg, ret>>

-----------------------------------------------------------------------------
(* Characters *)

At(s, i) == SubSeq(s, i, i)

UpperAlphabet == "ABCDEFGHIJKLMNOPQRSTUVWXYZ"
LowerAlphabet == "abcdefghijklmnopqrstuvwxyz"
DigitAlphabet == "0123456789"

CharsOf(s) == {At(s, i) : i \in 1..Len(s)}

UpperSet == CharsOf(UpperAlphabet)
LowerSet == CharsOf(LowerAlphabet)
DigitSet == CharsOf(DigitAlphabet)
AlphaSet == UpperSet \cup LowerSet
\* \s of Python's re, and the characters str.strip() removes
SpaceSet == {" ", "\t", "\n", "\r"}

\* Characters outside ASCII, each written as an ASCII character that the
\* program and the inputs use for nothing else
Bullet == "*"      \* U+2022
MidDot == "^"      \* U+00B7
EnDash == "~"      \* U+2013
EmDash == "="      \* U+2014
RQuote == "#"      \* U+2019
BoldA == "$"      \* U+1D400, an uppercase letter that has no lowercase form
\* a control character, written as an ASCII character in the same way
Soh == "}"        \* U+0001

\* the characters str.isupper holds of
UpperLetters == UpperSet \cup {BoldA}

\* \w of Python's re
WordSet == AlphaSet \cup DigitSet \cup {"_", BoldA}

\* str.lower() and str.upper() on one character
ToLower(c) ==
    IF c \in UpperSet
    THEN LET k == CHOOSE j \in 1..Len(UpperAlphabet) : At(UpperAlphabet, j) = c
         IN  At(LowerAlphabet, k)
    ELSE c

ToUpper(c) ==
    IF c \in LowerSet
    THEN LET k == CHOOSE j \in 1..Len(LowerAlphabet) : At(LowerAlphabet, j) = c
         IN  At(UpperAlphabet, k)
    ELSE c

\* str.lower() and str.upper(): character by character, by halves
RECURSIVE LowerRange(_, _, _)
LowerRange(s, lo, hi) ==
    IF lo > hi THEN ""
    ELSE IF lo = hi THEN ToLower(At(s, lo))
    ELSE LowerRange(s, lo, (lo + hi) \div 2) \o LowerRange(s, (lo + hi) \div 2 + 1, hi)

LowerStr(s) == LowerRange(s, 1, Len(s))

RECURSIVE UpperRange(_, _, _)
UpperRange(s, lo, hi) ==
    IF lo > hi THEN ""
    ELSE IF lo = hi THEN ToUpper(At(s, lo))
    ELSE UpperRange(s, lo, (lo + hi) \div 2) \o UpperRange(s, (lo + hi) \div 2 + 1, hi)

UpperStr(s) == UpperRange(s, 1, Len(s))

-----------------------------------------------------------------------------
(* Regular expressions of Python's re: a pattern is a record, matched by    *)
(* backtracking.  Ends(re, s, i) is the sequence of positions at which a    *)
(* match of re that starts at position i can end, in the order the          *)
(* backtracking matcher tries them (greedy repetition first, alternatives   *)
(* left to right); the match re finds at i is the first of them.            *)

\* [...]: one character of S
Set(S) == [k |-> "set", s |-> S]
\* [^...]: one character not in S
NotSet(S) == [k |-> "nset", s |-> S]
\* a literal character, and the same under re.I
Ch(c) == Set({c})
Ci(c) == Set({ToLower(c), ToUpper(c)})
Cat(rs) == [k |-> "cat", r |-> rs]
Alt(rs) == [k |-> "alt", r |-> rs]
\* r{lo,hi}, greedy; hi = -1 is no upper limit
Rep(r, lo, hi) == [k |-> "rep", r |-> r, lo |-> lo, hi |-> hi]
Opt(r) == Rep(r, 0, 1)
Star(r) == Rep(r, 0, -1)
Plus(r) == Rep(r, 1, -1)
\* \b
Wb == [k |-> "wb"]
\* a literal word, and the same under re.I
Lit(w) == Cat([j \in 1..Len(w) |-> Ch(At(w, j))])
LitI(w) == Cat([j \in 1..Len(w) |-> Ci(At(w, j))])

WbAt(s, i) ==
    LET before == i > 0 /\ At(s, i) \in WordSet
        after  == i < Len(s) /\ At(s, i + 1) \in WordSet
    IN  before # after

RECURSIVE Ends(_, _, _), EndsAll(_, _, _), RepEnds(_, _, _, _), RepAll(_, _, _, _)
Ends(re, s, i) ==
    CASE re.k = "set"  -> IF i < Len(s) /\ At(s, i + 1) \in re.s THEN <<i + 1>> ELSE <<>>
      [] re.k = "nset" -> IF i < Len(s) /\ At(s, i + 1) \notin re.s THEN <<i + 1>> ELSE <<>>
      [] re.k = "wb"   -> IF WbAt(s, i) THEN <<i>> ELSE <<>>
      [] re.k = "cat"  -> IF re.r = <<>> THEN <<i>>
                          ELSE EndsAll(Cat(Tail(re.r)), s, Ends(Head(re.r), s, i))
      [] re.k = "alt"  -> IF re.r = <<>> THEN <<>>
                          ELSE Ends(Head(re.r), s, i) \o Ends(Alt(Tail(re.r)), s, i)
      [] re.k = "rep"  -> RepEnds(re, s, i, 0)

EndsAll(re, s, starts) ==
    IF starts = <<>> THEN <<>>
    ELSE Ends(re, s, Head(starts)) \o EndsAll(re, s, Tail(starts))

\* n repetitions are done: one more first (greedy), then stop here
RepEnds(re, s, i, n) ==
    LET next == SelectSeq(Ends(re.r, s, i), LAMBDA e : e > i)
        more == IF re.hi = -1 \/ n < re.hi THEN RepAll(re, s, next, n + 1) ELSE <<>>
        here == IF n >= re.lo THEN <<i>> ELSE <<>>
    IN  more \o here

RepAll(re, s, starts, n) ==
    IF starts = <<>> THEN <<>>
    ELSE RepEnds(re, s, Head(starts), n) \o RepAll(re, s, Tail(starts), n)

NoMatch == [b |-> -1, e |-> -1]

\* the least of the positions in hits, -1 when there is none
Leftmost(hits) == IF hits = {} THEN -1 ELSE CHOOSE j \in hits : \A h \in hits : j <= h

\* the match that starts at position b, [b, e) in positions
MatchAt(re, s, b) == IF b = -1 THEN NoMatch ELSE [b |-> b, e |-> Ends(re, s, b)[1]]

\* the characters a match of re can start with: every match of re starts
\* with a character of s, unless any is set (a pattern that matches the empty
\* string has any set); \b takes no character, so that what follows it
\* starts the match
AnyFirst == [any |-> TRUE, s |-> {}]

FirstJoin(a, b) == [any |-> a.any \/ b.any, s |-> a.s \cup b.s]
RECURSIVE FirstOf(_), FirstOfAlt(_)
FirstOf(re) ==
    CASE re.k = "set" -> [any |-> FALSE, s |-> re.s]
      [] re.k = "cat" -> IF re.r = <<>> THEN AnyFirst
                         ELSE IF Head(re.r).k = "wb" THEN FirstOf(Cat(Tail(re.r)))
                         ELSE FirstOf(Head(re.r))
      [] re.k = "alt" -> FirstOfAlt(re.r)
      [] re.k = "rep" -> IF re.lo = 0 THEN AnyFirst ELSE FirstOf(re.r)
      [] OTHER -> AnyFirst

FirstOfAlt(rs) ==
    IF rs = <<>> THEN [any |-> FALSE, s |-> {}]
    ELSE FirstJoin(FirstOf(Head(rs)), FirstOfAlt(Tail(rs)))

\* re matches at position j, looked at only where its first character allows
HitAt(re, s, j, first) ==
    /\ first.any \/ (j < Len(s) /\ At(s, j + 1) \in first.s)
    /\ Ends(re, s, j) # <<>>

FirstHitIn(re, s, i, first) ==
    IF \E j \in i..Len(s) : HitAt(re, s, j, first)
    THEN CHOOSE j \in i..Len(s) :
             HitAt(re, s, j, first) /\ \A h \in i..(j - 1) : ~HitAt(re, s, h, first)
    ELSE -1

\* the leftmost position from i where re matches, -1 when there is none
FirstHit(re, s, i) == FirstHitIn(re, s, i, FirstOf(re))

\* re.search from position i: the leftmost match
SearchFrom(re, s, i) == MatchAt(re, s, FirstHit(re, s, i))

Search(re, s) == SearchFrom(re, s, 0)
Found(re, s) == Search(re, s) # NoMatch
\* m.group(0)
Group0(s, m) == SubSeq(s, m.b + 1, m.e)

\* re.sub(re, repl, s) for a pattern that matches no empty string: the text
\* between the matches, found one after the other from left to right
RECURSIVE SubFrom(_, _, _, _), SubMatch(_, _, _, _, _)
SubFrom(re, repl, s, i) == SubMatch(re, repl, s, i, SearchFrom(re, s, i))

\* m is the next match from position i
SubMatch(re, repl, s, i, m) ==
    IF m = NoMatch THEN SubSeq(s, i + 1, Len(s))
    ELSE SubSeq(s, i + 1, m.b) \o repl \o SubFrom(re, repl, s, m.e)

Sub(re, repl, s) == SubFrom(re, repl, s, 0)

-----------------------------------------------------------------------------
(* Constants / regex *)

MAX_SUMMARY_CHARS == 450

\* [-\s]
DashOrSpace == Set({"-"} \cup SpaceSet)

UNION_BANS == <<
    Cat(<<Wb, LitI("union"), Wb>>),
    Cat(<<Wb, LitI("non"), Opt(DashOrSpace), LitI("union"), Wb>>),
    Cat(<<Wb, LitI("ibew"), Wb>>),
    Cat(<<Wb, LitI("local"), Star(Set(SpaceSet)), Plus(Set(DigitSet)), Wb>>),
    Cat(<<Wb, LitI("inside"), Star(Set(SpaceSet)), LitI("wire"),
          Opt(Alt(<<LitI("man"), LitI("men")>>)), Wb>>),
    Cat(<<Wb, LitI("low"), Opt(DashOrSpace), LitI("voltage"), Wb>>),
    Cat(<<Wb, LitI("sound"), Plus(Set(SpaceSet)), LitI("and"), Plus(Set(SpaceSet)),
          LitI("communication"), Opt(LitI("s")), Wb>>),
    Cat(<<Wb, LitI("neca"), Wb>>),
    Cat(<<Wb, LitI("open"), Opt(DashOrSpace), LitI("shop"), Wb>> ) >>

BANNED_RE == Alt(UNION_BANS)

EMAIL_RE ==
    Cat(<<Plus(Set(AlphaSet \cup DigitSet \cup {".", "_", "%", "+", "-"})), Ch("@"),
          Plus(Set(AlphaSet \cup DigitSet \cup {".", "-"})), Ch("."),
          Rep(Set(AlphaSet), 2, -1)>>)

\* [\s\-\.]
PhoneSep == Set(SpaceSet \cup {"-", "."})

PHONE_RE ==
    Cat(<<Opt(Cat(<<Opt(Ch("+")), Ch("1"), PhoneSep>>)),
          Opt(Ch("(")), Rep(Set(DigitSet), 3, 3), Opt(Ch(")")), Opt(PhoneSep),
          Rep(Set(DigitSet), 3, 3), Opt(PhoneSep), Rep(Set(DigitSet), 4, 4)>>)

\* CITY_STATE_RE up to the end of its group 1, and the rest of it
CITY_STATE_NAME == Cat(<<Wb, Rep(Set(AlphaSet \cup {" ", ".", "'", "-"}), 2, -1)>>)
CITY_STATE_REST == Cat(<<Ch(","), Star(Set(SpaceSet)), Rep(Set(AlphaSet), 2, 2), Wb>>)
CITY_STATE_RE == Cat(<<CITY_STATE_NAME, CITY_STATE_REST>>)

MULTISPACE_pairs == Cat(<<Set(SpaceSet), Set(SpaceSet)>>)

MULTISPACE == Plus(Set(SpaceSet))
PHONE_DIGITS == Plus(NotSet(DigitSet))

-----------------------------------------------------------------------------
(* Basic cleaners *)

\* str.strip()
FirstMark(s) ==
    CHOOSE i \in 1..Len(s) :
        At(s, i) \notin SpaceSet /\ \A j \in 1..(i - 1) : At(s, j) \in SpaceSet

LastMark(s) ==
    CHOOSE i \in 1..Len(s) :
        At(s, i) \notin SpaceSet /\ \A j \in (i + 1)..Len(s) : At(s, j) \in SpaceSet

Strip(s) ==
    IF \A i \in 1..Len(s) : At(s, i) \in SpaceSet THEN ""
    ELSE SubSeq(s, FirstMark(s), LastMark(s))

\* the values of a sequence
Range(f) == {f[j] : j \in 1..Len(f)}

\* w in s
Contains(s, w) == \E i \in 1..(Len(s) - Len(w) + 1) : SubSeq(s, i, i + Len(w) - 1) = w

\* s[:n]
Take(s, n) == SubSeq(s, 1, IF Len(s) < n THEN Len(s) ELSE n)

\* sep.join(ws[lo..hi]), by halves
RECURSIVE JoinRange(_, _, _, _)
JoinRange(ws, sep, lo, hi) ==
    IF lo > hi THEN ""
    ELSE IF lo = hi THEN ws[lo]
    ELSE LET mid == (lo + hi) \div 2
         IN  JoinRange(ws, sep, lo, mid) \o sep \o JoinRange(ws, sep, mid + 1, hi)

\* sep.join(ws)
JoinWith(ws, sep) == JoinRange(ws, sep, 1, Len(ws))

\* s[lo..hi].split(c) for a character c, by halves
RECURSIVE SplitRange(_, _, _, _)
SplitRange(s, c, lo, hi) ==
    IF \A i \in lo..hi : At(s, i) # c THEN <<SubSeq(s, lo, hi)>>
    ELSE IF lo = hi THEN <<"", "">>
    ELSE LET mid == (lo + hi) \div 2
             L   == SplitRange(s, c, lo, mid)
             R   == SplitRange(s, c, mid + 1, hi)
         IN  SubSeq(L, 1, Len(L) - 1) \o <<L[Len(L)] \o R[1]>> \o Tail(R)

\* s.split(c)
SplitChar(s, c) == SplitRange(s, c, 1, Len(s))

\* str.splitlines(): the line breaks are "\n", "\r\n" and "\r"; a final line
\* break opens no further line
WithoutFinalEmpty(ps) == IF ps[Len(ps)] = "" THEN SubSeq(ps, 1, Len(ps) - 1) ELSE ps

SplitLines(s) == WithoutFinalEmpty(SplitChar(Sub(Alt(<<Lit("\r\n"), Ch("\r")>>), "\n", s), "\n"))

\* re.split(r"\s+", s) without its empty pieces, and str.split(): the maximal
\* runs of non-whitespace characters of s, in order
RECURSIVE WordsOf(_, _)
WordsOf(s, cur) ==
    IF s = "" THEN (IF cur = "" THEN <<>> ELSE <<cur>>)
    ELSE IF At(s, 1) \in SpaceSet
         THEN (IF cur = "" THEN <<>> ELSE <<cur>>) \o WordsOf(SubSeq(s, 2, Len(s)), "")
         ELSE WordsOf(SubSeq(s, 2, Len(s)), cur \o At(s, 1))

strip_banned(text) == Strip(Sub(BANNED_RE, "", text))

norm_ws(s) == Sub(MULTISPACE, " ", Strip(s))

\* s[:1].upper() + s[1:]
UpperFirst(t) == IF t # "" THEN ToUpper(At(t, 1)) \o SubSeq(t, 2, Len(t)) ELSE t

cap_first(s) == UpperFirst(norm_ws(s))

\* eleven digits lose their first digit
WithoutCountryCode_any11(digits) ==
    IF Len(digits) = 11 THEN SubSeq(digits, 2, Len(digits)) ELSE digits

\* eleven digits that start with 1 lose the 1
WithoutCountryCode(digits) ==
    IF Len(digits) = 11 /\ At(digits, 1) = "1" THEN SubSeq(digits, 2, Len(digits)) ELSE digits

\* ten digits are formatted, anything else is s with its whitespace normalised
PhoneOf(s, digits) ==
    IF Len(digits) = 10
    THEN "(" \o SubSeq(digits, 1, 3) \o ") " \o SubSeq(digits, 4, 6)
             \o "-" \o SubSeq(digits, 7, Len(digits))
    ELSE norm_ws(s)

clean_phone(s) == PhoneOf(s, WithoutCountryCode(Sub(PHONE_DIGITS, "", s)))

clean_email_strip_only(s) == Strip(s)

clean_email(s) == LowerStr(Strip(s))

\* re.split(re, s) for a pattern that matches no empty string
RECURSIVE SplitFrom(_, _, _), SplitMatch(_, _, _, _)
SplitFrom(re, s, i) == SplitMatch(re, s, i, SearchFrom(re, s, i))

\* m is the next match from position i
SplitMatch(re, s, i, m) ==
    IF m = NoMatch THEN <<SubSeq(s, i + 1, Len(s))>>
    ELSE <<SubSeq(s, i + 1, m.b)>> \o SplitFrom(re, s, m.e)

\* str.strip(chars)
RECURSIVE StripChars(_, _)
StripChars(s, S) ==
    IF s # "" /\ At(s, 1) \in S THEN StripChars(SubSeq(s, 2, Len(s)), S)
    ELSE IF s # "" /\ At(s, Len(s)) \in S THEN StripChars(SubSeq(s, 1, Len(s) - 1), S)
    ELSE s

\* the pieces with their outer blanks and bullets removed, without the empty ones
ListParts(pieces) ==
    SelectSeq([j \in 1..Len(pieces) |-> StripChars(pieces[j], {" ", Bullet, "\t"})],
              LAMBDA q : q # "")

\* the first position from i of a character outside S, and the last position
\* of the run of such characters that starts at b
RunStart(s, S, i) ==
    CHOOSE j \in i..Len(s) : At(s, j) \notin S /\ \A h \in i..(j - 1) : At(s, h) \in S

RunEnd(s, S, b) ==
    CHOOSE j \in b..Len(s) :
        (j = Len(s) \/ At(s, j + 1) \in S) /\ \A h \in b..j : At(s, h) \notin S

\* the pieces that are not empty of re.split of s at the runs of characters
\* of S, from position i: the maximal runs of characters outside S
RECURSIVE RunsFrom(_, _, _), RunsAt(_, _, _)
RunsFrom(s, S, i) ==
    IF \A j \in i..Len(s) : At(s, j) \in S THEN <<>> ELSE RunsAt(s, S, RunStart(s, S, i))

RunsAt(s, S, b) == <<SubSeq(s, b, RunEnd(s, S, b))>> \o RunsFrom(s, S, RunEnd(s, S, b) + 1)

split_list(raw) ==
    IF raw = "" THEN <<>>
    ELSE ListParts(RunsFrom(raw, {",", "\n", ";", Bullet}, 1))

-----------------------------------------------------------------------------
(* Bullets and dates *)

MAX_BULLETS_PER_JOB == 4
BULLET_WORDS == 24

FILLER_LEADS ==
    Cat(<<Star(Set(SpaceSet)),
          Alt(<<LitI("responsible for"), LitI("duties included"),
                LitI("tasked with"), LitI("in charge of")>>),
          Star(Set(SpaceSet)), Opt(Ch(":")), Star(Set(SpaceSet))>>)

BULLET_LEAD == Cat(<<Plus(Set({Bullet, "-"})), Star(Set(SpaceSet))>>)

DATE_YEAR == Rep(Set(DigitSet), 4, 4)
DATE_MONTH_YEAR == Cat(<<Rep(Set(WordSet), 3, 9), Plus(Set(SpaceSet)), DATE_YEAR>>)
DATE_START == Alt(<<DATE_YEAR, DATE_MONTH_YEAR>>)
DATE_SEP ==
    Cat(<<Star(Set(SpaceSet)),
          Alt(<<Ch(EnDash), Ch("-"), LitI("to"), LitI("until"), LitI("through"), Ch(EmDash)>>),
          Star(Set(SpaceSet))>>)
DATE_END == Alt(<<LitI("Present"), LitI("Current"), DATE_YEAR, DATE_MONTH_YEAR>>)
DATE_RANGE_RE == Cat(<<DATE_START, DATE_SEP, DATE_END>>)

\* re.sub("^" + re, "", s): s without the match of re at its start
WithoutLead(re, s) ==
    IF Ends(re, s, 0) = <<>> THEN s ELSE SubSeq(s, Ends(re, s, 0)[1] + 1, Len(s))

\* re.sub(r"\.+$", "", s) for s of one line: s without its final full stops
WithoutFinalDots(s) ==
    SubSeq(s, 1, Leftmost({i \in 0..Len(s) : \A j \in (i + 1)..Len(s) : At(s, j) = "."}))

\* " ".join(words[:24]) if len(words) > 24 else s
FirstWords(s, words) ==
    IF Len(words) > BULLET_WORDS THEN JoinWith(SubSeq(words, 1, BULLET_WORDS), " ") ELSE s

\* the words of the bullet are counted in the cleaned text
CappedBullet(s) == FirstWords(s, WordsOf(s, ""))

clean_bullet(s) ==
    CappedBullet(cap_first(WithoutFinalDots(
        WithoutLead(FILLER_LEADS, WithoutLead(BULLET_LEAD, norm_ws(s))))))

\* where group 'start' of the match of DATE_RANGE_RE at b ends
DateStartEnd(s, b) ==
    SelectSeq(Ends(DATE_START, s, b),
              LAMBDA e : Ends(Cat(<<DATE_SEP, DATE_END>>), s, e) # <<>>)[1]

\* where group 'end' begins, the separator starting at p
DateEndBegin(s, p) ==
    SelectSeq(Ends(DATE_SEP, s, p), LAMBDA e : Ends(DATE_END, s, e) # <<>>)[1]

\* groups 'start' and 'end' of the match m of DATE_RANGE_RE
DateGroups(s, m) ==
    [start |-> SubSeq(s, m.b + 1, DateStartEnd(s, m.b)),
     end   |-> SubSeq(s, DateEndBegin(s, DateStartEnd(s, m.b)) + 1, m.e)]

\* the dash the text is cut at
DateDash(raw) ==
    IF Contains(raw, EnDash) THEN EnDash
    ELSE IF Contains(raw, EmDash) THEN EmDash ELSE "-"

\* raw.split(sep, 1) for a character sep that occurs in raw, each bit stripped
SplitOnce(raw, i) ==
    [start |-> Strip(SubSeq(raw, 1, i - 1)), end |-> Strip(SubSeq(raw, i + 1, Len(raw)))]

\* no date range matched raw
DatesByDash(raw) ==
    IF Contains(raw, EnDash) \/ Contains(raw, "-") \/ Contains(raw, EmDash)
    THEN SplitOnce(raw, Leftmost({i \in 1..Len(raw) : At(raw, i) = DateDash(raw)}))
    ELSE [start |-> raw, end |-> ""]

DatesOf(raw, m) == IF m # NoMatch THEN DateGroups(raw, m) ELSE DatesByDash(raw)

DatesOfClean(raw) == DatesOf(raw, Search(DATE_RANGE_RE, raw))

parse_dates(raw) == DatesOfClean(norm_ws(raw))

-----------------------------------------------------------------------------
(* Skills *)

MAX_SKILLS == 12

SKILL_CANON ==
    <<"Problem-solving",
      "Critical thinking",
      "Attention to detail",
      "Time management",
      "Teamwork & collaboration",
      "Adaptability & willingness to learn",
      "Safety awareness",
      "Conflict resolution",
      "Customer service",
      "Leadership",
      "Reading blueprints & specs",
      "Hand & power tools",
      "Materials handling (wood/concrete/metal)",
      "Operating machinery",
      "Trades math & measurement",
      "Regulatory compliance",
      "Physical stamina & dexterity">>

\* the dictionary, as the sequence of its <<key, label>> items
_SKILL_SYNONYMS ==
    <<<<"problem solving", "Problem-solving">>,
      <<"problem-solving", "Problem-solving">>,
      <<"critical-thinking", "Critical thinking">>,
      <<"attention to details", "Attention to detail">>,
      <<"time-management", "Time management">>,
      <<"teamwork", "Teamwork & collaboration">>,
      <<"collaboration", "Teamwork & collaboration">>,
      <<"adaptability", "Adaptability & willingness to learn">>,
      <<"willingness to learn", "Adaptability & willingness to learn">>,
      <<"safety", "Safety awareness">>,
      <<"customer service skills", "Customer service">>,
      <<"leadership skills", "Leadership">>,
      <<"blueprints", "Reading blueprints & specs">>,
      <<"tools", "Hand & power tools">>,
      <<"machinery", "Operating machinery">>,
      <<"math", "Trades math & measurement">>,
      <<"measurements", "Trades math & measurement">>,
      <<"compliance", "Regulatory compliance">>,
      <<"stamina", "Physical stamina & dexterity">>,
      <<"forklift", "Operating machinery">>>>

\* the characters str.title() takes for letters of a word
CasedSet == AlphaSet \cup {BoldA}

\* str.title(): a letter after a letter is lowercased, any other letter
\* is uppercased
Title(s) ==
    JoinRange([i \in 1..Len(s) |->
                  IF i > 1 /\ At(s, i - 1) \in CasedSet
                  THEN ToLower(At(s, i)) ELSE ToUpper(At(s, i))],
              "", 1, Len(s))

\* _SKILL_SYNONYMS.get(key), "" for None
SynonymOf(key) ==
    LET hits == {j \in 1..Len(_SKILL_SYNONYMS) : _SKILL_SYNONYMS[j][1] = key}
    IN  IF hits = {} THEN "" ELSE _SKILL_SYNONYMS[CHOOSE j \in hits : TRUE][2]

\* mapped if there is a synonym, the title-cased label otherwise
LabelOf(base, mapped) ==
    IF mapped # "" THEN mapped
    ELSE Title(Strip(Sub(MULTISPACE, " ", base)))

SkillKey(base) == Sub(MULTISPACE, " ", LowerStr(base))

LabelOfBase(base) == LabelOf(base, SynonymOf(SkillKey(base)))

normalize_skill_label(s) == LabelOfBase(Strip(s))

-----------------------------------------------------------------------------
(* Parsing helpers: the header *)

\* the lines of the text that make the top block, and the lines the name
\* fallback reads
TOP_LINES == 50
FALLBACK_LINES == 15

\* [bullets, dots, dashes, slash]+, the separators replaced by "|"
NAME_SEPARATORS == Plus(Set({Bullet, MidDot, EnDash, EmDash, "-", "/"}))

SECTION_WORDS ==
    Cat(<<Wb, Alt(<<LitI("objective"), LitI("summary"), LitI("skills"), LitI("experience"),
                    LitI("education"), LitI("certifications")>>), Wb>>)

SECTION_WORDS_FALLBACK ==
    Cat(<<Wb, Alt(<<LitI("objective"), LitI("summary"), LitI("skills"), LitI("experience"),
                    LitI("education")>>), Wb>>)

NoCityState == [city |-> "", state |-> ""]

\* the end of group 1 of the CITY_STATE_RE match that starts at b: the first
\* position, in the matcher's order, from which the rest of the pattern matches
Group1End(s, b) ==
    SelectSeq(Ends(CITY_STATE_NAME, s, b), LAMBDA e : Ends(CITY_STATE_REST, s, e) # <<>>)[1]

\* groups that take the whole match for the city
CityStateGroups_whole_match(s, m) ==
    IF m = NoMatch THEN NoCityState
    ELSE [city |-> Group0(s, m), state |-> SubSeq(s, m.e - 1, m.e)]

\* groups 1 and 2 of the match m of CITY_STATE_RE
CityStateGroups(s, m) ==
    IF m = NoMatch THEN NoCityState
    ELSE [city |-> SubSeq(s, m.b + 1, Group1End(s, m.b)), state |-> SubSeq(s, m.e - 1, m.e)]

\* CITY_STATE_RE.search(s) with its groups
CityStateSearch(s) == CityStateGroups(s, Search(CITY_STATE_RE, s))

\* a line of the separator-normalised top block that may be the name
IsNameCandidate(line) ==
    /\ line # ""
    /\ ~(Found(EMAIL_RE, line) \/ Found(PHONE_RE, line))
    /\ ~Found(SECTION_WORDS, line)
    /\ LET toks == WordsOf(line, "")
       IN  /\ 2 <= Len(toks) /\ Len(toks) <= 4
           /\ \A j \in 1..Len(toks) : CharsOf(toks[j]) \cap DigitSet = {}
           /\ Cardinality({j \in 1..Len(toks) : At(toks[j], 1) \in UpperLetters}) >= 2

\* a line of the text that the fallback takes as the name
IsFallbackName(L) ==
    /\ L # ""
    /\ ~Found(EMAIL_RE, L)
    /\ ~Found(PHONE_RE, L)
    /\ ~Found(SECTION_WORDS_FALLBACK, L)
    /\ CharsOf(L) \cap AlphaSet # {}
    /\ Len(WordsOf(L, "")) <= 4

\* the top block: the first lines, each stripped, joined again
TopBlock(lines) == JoinWith([j \in 1..Len(Take(lines, TOP_LINES)) |-> Strip(lines[j])], "\n")

\* the lines of the separator-normalised block, each stripped of whitespace
\* and bars, that pass the candidate test
Unbarred(raws) == [j \in 1..Len(raws) |-> Strip(StripChars(Strip(raws[j]), {"|"}))]

Candidates(sep_norm) == SelectSeq(Unbarred(SplitChar(sep_norm, "\n")), IsNameCandidate)

\* the first lines of the text, stripped, that the fallback takes
FallbackNames(lines) ==
    SelectSeq([j \in 1..Len(Take(lines, FALLBACK_LINES)) |-> Strip(lines[j])], IsFallbackName)

FirstOrEmpty(names) == IF names # <<>> THEN names[1] ELSE ""

\* the last candidate instead of the first
NameOf_last_candidate(candidates, lines) ==
    IF candidates # <<>> THEN candidates[Len(candidates)]
    ELSE FirstOrEmpty(FallbackNames(lines))

\* the first candidate, else the first fallback line, else nothing
NameOf(candidates, lines) ==
    IF candidates # <<>> THEN candidates[1]
    ELSE FirstOrEmpty(FallbackNames(lines))

\* the city and state found in the top block, else those found in the text
CityStateOf(mcs_top, text) == IF mcs_top # NoCityState THEN mcs_top ELSE CityStateSearch(text)

\* m.group(0), "" for no match
MatchText(s, m) == IF m = NoMatch THEN "" ELSE Group0(s, m)

HeaderRecord(name, email, phone, mcs) ==
    [Name  |-> cap_first(name),
     Email |-> clean_email(email),
     Phone |-> clean_phone(phone),
     City  |-> cap_first(mcs.city),
     State |-> Strip(UpperStr(mcs.state))]

HeaderOfBlock(text, lines, top_block) ==
    HeaderRecord(NameOf(Candidates(Sub(NAME_SEPARATORS, "|", top_block)), lines),
                 MatchText(text, Search(EMAIL_RE, text)),
                 MatchText(text, Search(PHONE_RE, text)),
                 CityStateOf(CityStateSearch(top_block), text))

parse_header(text) ==
    IF text = "" THEN [Name |-> "", Email |-> "", Phone |-> "", City |-> "", State |-> ""]
    ELSE HeaderOfBlock(text, SplitLines(text), TopBlock(SplitLines(text)))

-----------------------------------------------------------------------------
(* Parsing helpers: the certifications *)

\* the characters in code point order, those outside ASCII last
CodeOrder ==
    Soh \o "\t\n\r !\"%&'()+,-./" \o DigitAlphabet \o ":;<>?@" \o UpperAlphabet
        \o "[\\]_" \o LowerAlphabet \o "{|"
        \o MidDot \o EnDash \o EmDash \o RQuote \o Bullet \o BoldA

\* ord(c)
Code(c) == CHOOSE j \in 1..Len(CodeOrder) : At(CodeOrder, j) = c

\* a < b for strings, d the first position at which they differ (-1: none)
LessAt(a, b, d) ==
    IF d = -1 THEN Len(a) < Len(b) ELSE Code(At(a, d)) < Code(At(b, d))

StrLess(a, b) ==
    LessAt(a, b, Leftmost({i \in 1..(IF Len(a) < Len(b) THEN Len(a) ELSE Len(b)) : At(a, i) # At(b, i)}))

\* the elements of a set, one after the other
RECURSIVE SeqOf(_)
SeqOf(S) ==
    IF S = {} THEN <<>>
    ELSE LET x == CHOOSE y \in S : TRUE IN <<x>> \o SeqOf(S \ {x})

\* sorted(S) for a set S of strings
Sorted(S) == SortSeq(SeqOf(S), StrLess)

CERT_KEYWORDS ==
    <<"osha", "forklift", "flagger", "cpr", "first aid", "hazwoper",
      "twic", "nccer", "confined space", "ppe", "aerial lift", "traffic control">>

\* the label the first loop adds for a keyword
CertLabel(k) ==
    IF k = "osha" THEN "OSHA-10"
    ELSE IF k = "first aid" THEN "First Aid"
    ELSE IF k = "aerial lift" THEN "Aerial Lift"
    ELSE Title(k)

\* the first loop: the keywords that occur in low
FoundByKeyword(low) ==
    {CertLabel(CERT_KEYWORDS[j]) : j \in {n \in 1..Len(CERT_KEYWORDS) : Contains(low, CERT_KEYWORDS[n])}}

\* the second loop: the three patterns, line by line
FoundByLine(lines) ==
    {lab \in {"Flagger", "Forklift", "CPR"} :
        \E j \in 1..Len(lines) :
            \/ lab = "Flagger" /\ Found(LitI("flagger"), lines[j])
            \/ lab = "Forklift" /\ Found(LitI("forklift"), lines[j])
            \/ lab = "CPR" /\ Found(Cat(<<Wb, LitI("cpr"), Wb>>), lines[j])}

\* the keywords are looked for in the text as it is
parse_certs_case_sensitive(text) ==
    Sorted(FoundByKeyword(text) \cup FoundByLine(SplitLines(text)))

parse_certs(text) ==
    Sorted(FoundByKeyword(LowerStr(text)) \cup FoundByLine(SplitLines(text)))

-----------------------------------------------------------------------------
(* Parsing helpers: the jobs and the schools *)

MAX_CERTS == 8
MAX_JOBS == 3
MAX_SCHOOLS == 2
AHEAD_LINES == 4
WINDOW_LINES == 3
SHORT_LINE_WORDS == 4

\* str.rstrip()
RStrip(s) == SubSeq(s, 1, Len(s) - Leftmost({n \in 0..Len(s) : n = Len(s) \/ At(s, Len(s) - n) \notin SpaceSet}))

\* re.fullmatch(re, s)
FullMatch(re, s) == \E j \in 1..Len(Ends(re, s, 0)) : Ends(re, s, 0)[j] = Len(s)

\* the greatest of the positions in hits, 0 when there is none
Greatest(hits) == IF hits = {} THEN 0 ELSE CHOOSE j \in hits : \A h \in hits : j >= h

Max(a, b) == IF a > b THEN a ELSE b

SECTION_HEADING ==
    Cat(<<Star(Set(SpaceSet)),
          Alt(<<LitI("summary"), LitI("objective"), LitI("skills"),
                LitI("certifications"), LitI("education")>>),
          Star(Set(SpaceSet))>>)

IsHeading(ln) == FullMatch(SECTION_HEADING, ln)

HEAD_SEPARATOR ==
    Alt(<<Cat(<<Star(Set(SpaceSet)), Ch("|"), Star(Set(SpaceSet))>>),
          Rep(Set(SpaceSet), 2, -1),
          Lit(" " \o EmDash \o " "), Lit(" " \o EnDash \o " "), Lit(" " \o EmDash \o " ")>>)

BULLET_MARK == Cat(<<Set({Bullet, "-"}), Plus(Set(SpaceSet))>>)

COMPANY_CHARS == AlphaSet \cup DigitSet \cup {" ", ".", "'", "-", "&"}

_safe_company_token(token) ==
    /\ ~FullMatch(CITY_STATE_RE, token)
    /\ Len(token) >= 2
    /\ \A j \in 1..Len(token) : At(token, j) \in COMPANY_CHARS

\* "<city>, <STATE>" of a city and state match, "" when there is none
CityStateText(cs) ==
    IF cs = NoCityState THEN "" ELSE cs.city \o ", " \o UpperStr(cs.state)

\* "<start> - <end>" (with an en dash) of a date range match, "" when there is none
DateRangeText(s, m) ==
    IF m = NoMatch THEN ""
    ELSE DateGroups(s, m).start \o " " \o EnDash \o " " \o DateGroups(s, m).end

\* role and company of a head line cut in two or more parts
RoleCompanyOf(cand_role, cand_co) ==
    IF _safe_company_token(cand_co) THEN [role |-> cand_role, company |-> cand_co]
    ELSE IF _safe_company_token(cand_role) /\ ~_safe_company_token(cand_co)
         THEN [role |-> cand_co, company |-> cand_role]
    ELSE [role |-> cand_role, company |-> ""]

RoleCompany(head, parts) ==
    IF Len(parts) >= 2 THEN RoleCompanyOf(Strip(parts[1]), Strip(parts[2]))
    ELSE [role |-> head, company |-> ""]

\* a company that is a city and state is dropped
CompanyOf(company) ==
    IF company # "" /\ FullMatch(CITY_STATE_RE, company) THEN "" ELSE company

\* " ".join(lines[i:i+3]), i counted from 1
Window(lines, i) ==
    JoinWith(SubSeq(lines, i, IF i + WINDOW_LINES - 1 < Len(lines)
                              THEN i + WINDOW_LINES - 1 ELSE Len(lines)), " ")

\* the inner loop: the bullets under a head line, from line j on; it
\* returns the line it stopped at
RECURSIVE BulletScan(_, _, _)
BulletStop(j, bullets) == [j |-> j, bullets |-> bullets]

AfterBullet(lines, j, bullets) ==
    IF Len(bullets) >= MAX_BULLETS_PER_JOB THEN BulletStop(j, bullets)
    ELSE BulletScan(lines, j + 1, bullets)

BulletStep(lines, j, bullets, ln) ==
    IF ln = ""
    THEN IF bullets # <<>> THEN BulletStop(j, bullets) ELSE BulletScan(lines, j + 1, bullets)
    ELSE IF IsHeading(ln) THEN BulletStop(j, bullets)
    ELSE IF Ends(BULLET_MARK, ln, 0) # <<>> \/ At(lines[j], 1) = "\t"
    THEN AfterBullet(lines, j, Append(bullets, clean_bullet(WithoutLead(BULLET_LEAD, ln))))
    ELSE IF /\ ~(Found(DATE_RANGE_RE, ln) \/ Found(CITY_STATE_RE, ln))
            /\ Len(WordsOf(ln, "")) <= SHORT_LINE_WORDS
            /\ bullets # <<>>
    THEN BulletStop(j, bullets)
    ELSE BulletScan(lines, j + 1, bullets)

BulletScan(lines, j, bullets) ==
    IF j > Len(lines) THEN BulletStop(j, bullets)
    ELSE BulletStep(lines, j, bullets, Strip(lines[j]))

\* the entry appended for a head line, none when all its fields are empty
JobEntry(rc, cityst, dates, bullets) ==
    IF CompanyOf(rc.company) = "" /\ rc.role = "" /\ cityst = "" /\ dates = "" /\ bullets = <<>>
    THEN <<>>
    ELSE <<[company |-> cap_first(CompanyOf(rc.company)),
            role    |-> cap_first(rc.role),
            city    |-> cap_first(cityst),
            start   |-> IF dates # "" THEN parse_dates(dates).start ELSE "",
            end     |-> IF dates # "" THEN parse_dates(dates).end ELSE "",
            bullets |-> bullets]>>

JobOfWindow(head, window, bullets) ==
    JobEntry(RoleCompany(head, SplitFrom(HEAD_SEPARATOR, head, 0)),
             CityStateText(CityStateSearch(window)),
             DateRangeText(window, Search(DATE_RANGE_RE, window)),
             bullets)

\* the outer loop, from line i on
RECURSIVE JobsFrom(_, _, _)
JobsAfterScan(lines, i, out, head, scan) ==
    JobsFrom(lines, Max(scan.j, i + 1), out \o JobOfWindow(head, Window(lines, i), scan.bullets))

JobsAtHead(lines, i, out, head) ==
    IF head = "" \/ IsHeading(head) THEN JobsFrom(lines, i + 1, out)
    ELSE JobsAfterScan(lines, i, out, head, BulletScan(lines, i + 1, <<>>))

JobsFrom(lines, i, out) ==
    IF i > Len(lines) \/ Len(out) >= MAX_JOBS THEN out
    ELSE JobsAtHead(lines, i, out, Strip(lines[i]))

RStripAll(lines) == [j \in 1..Len(lines) |-> RStrip(lines[j])]
StripAll(lines) == [j \in 1..Len(lines) |-> Strip(lines[j])]

\* seq[:n]
FirstN(seq, n) == SubSeq(seq, 1, IF Len(seq) < n THEN Len(seq) ELSE n)

parse_jobs(text) == FirstN(JobsFrom(RStripAll(SplitLines(text)), 1, <<>>), MAX_JOBS)

EDU_WORDS ==
    Alt(<<LitI("high school"), LitI("ged"), LitI("college"), LitI("university"),
          LitI("program"), LitI("certificate"), LitI("diploma")>>)

YEAR_RE ==
    Cat(<<Wb, Alt(<<Cat(<<Lit("20"), Rep(Set(DigitSet), 2, 2)>>),
                    Cat(<<Lit("19"), Rep(Set(DigitSet), 2, 2)>>)>>), Wb>>)

CRED_WORDS == {"diploma", "degree", "certificate", "ged", "program"}

\* lines[i+1:i+5], i counted from 1
Ahead(lines, i) ==
    SubSeq(lines, i + 1, IF i + AHEAD_LINES < Len(lines) THEN i + AHEAD_LINES ELSE Len(lines))

\* the last of the lines ahead with a year in it
YearAt(ahead, j) == IF j = 0 THEN "" ELSE Strip(ahead[j])
YearOf(ahead) == YearAt(ahead, Greatest({j \in 1..Len(ahead) : Found(YEAR_RE, ahead[j])}))

\* the city and state of the last of the lines ahead that has one
DetailsAt(ahead, j) == IF j = 0 THEN "" ELSE CityStateText(CityStateSearch(ahead[j]))
DetailsOf(ahead) == DetailsAt(ahead, Greatest({j \in 1..Len(ahead) : Found(CITY_STATE_RE, ahead[j])}))

\* the first of the lines ahead with a credential word in it
CredAt(ahead, j) == IF j = -1 THEN "" ELSE cap_first(Strip(ahead[j]))
CredOf(ahead) ==
    CredAt(ahead, Leftmost({j \in 1..Len(ahead) : \E w \in CRED_WORDS : Contains(LowerStr(ahead[j]), w)}))

SchoolOf(l, ahead) ==
    [school |-> cap_first(l), credential |-> CredOf(ahead),
     year |-> YearOf(ahead), details |-> DetailsOf(ahead)]

\* the entries of the school lines, in order
SchoolsOf(lines, at) == [n \in 1..Len(at) |-> SchoolOf(lines[at[n]], Ahead(lines, at[n]))]

\* every line is taken for a school
SchoolLines_every_line(lines) == [j \in 1..Len(lines) |-> j]

\* the lines that name a school
SchoolLines(lines) ==
    SelectSeq([j \in 1..Len(lines) |-> j], LAMBDA j : Found(EDU_WORDS, lines[j]))

EducationOf(lines) == SchoolsOf(lines, FirstN(SchoolLines(lines), MAX_SCHOOLS))

parse_education(text) == EducationOf(StripAll(SplitLines(text)))

-----------------------------------------------------------------------------
(* Resume rendering: the contact and summary entries of the context, and    *)
(* the cover letter as the sequence of its paragraphs                       *)

\* Summary/objective: the student's final text, scrubbed and cut
Objective(objective_final) ==
    IF Strip(objective_final) # ""
    THEN Take(strip_banned(norm_ws(objective_final)), MAX_SUMMARY_CHARS)
    ELSE ""

\* an entry of the tail: the label and the text, when there is text
TailEntry(label, text) == IF text # "" THEN <<label \o text>> ELSE <<>>

\* the summary with the other-work and volunteer tail, cut again
WithTail(summary, tail) ==
    IF tail # <<>> /\ summary # ""
    THEN Take(Strip(summary \o " " \o JoinWith(tail, "  " \o Bullet \o "  ")), MAX_SUMMARY_CHARS)
    ELSE summary

Summary(form) ==
    WithTail(Objective(form.Objective_Final),
             TailEntry("Other work: ", norm_ws(form.Other_Work))
                 \o TailEntry("Volunteer: ", norm_ws(form.Volunteer)))

\* a list comprehension as a list, each element computed once
Listed(f) == SubSeq(f, 1, Len(f))

\* the entries of the three skill fields, in order
SkillsAll(form) ==
    split_list(form.Skills_Transferable) \o split_list(form.Skills_JobSpecific)
        \o split_list(form.Skills_SelfManagement)

SkillLabels(all) == Listed([j \in 1..Len(all) |-> normalize_skill_label(norm_ws(all[j]))])

\* the elements of seq at the positions in at, in order
Pick(seq, at) == SelectSeq([j \in 1..Len(seq) |-> IF j \in at THEN <<seq[j]>> ELSE <<>>],
                           LAMBDA x : x # <<>>)
Unwrap(boxes) == [j \in 1..Len(boxes) |-> boxes[j][1]]

LowerAll(labs) == Listed([j \in 1..Len(labs) |-> LowerStr(labs[j])])

\* the positions of the labels to keep: those that are not empty and whose
\* text in seen is the text of no label before them
UnseenIn(labs, seen) ==
    {j \in 1..Len(labs) : labs[j] # "" /\ \A i \in 1..(j - 1) : seen[i] # seen[j]}

\* seen holds the labels as they are
Unseen_case_sensitive(labs) == UnseenIn(labs, labs)

\* seen holds the lowercase text of the labels
Unseen(labs) == UnseenIn(labs, LowerAll(labs))

Deduped(labs) == Unwrap(Pick(labs, Unseen(labs)))

SkillsOf(form) == FirstN(Deduped(SkillLabels(SkillsAll(form))), MAX_SKILLS)

NormAll(items) == Listed([j \in 1..Len(items) |-> norm_ws(items[j])])

CertsOf(form) == FirstN(NormAll(split_list(form.Certifications)), MAX_CERTS)

\* Job.trim: the non-blank bullets, cleaned, the first k of them
CleanAll(bullets) == Listed([j \in 1..Len(bullets) |-> clean_bullet(bullets[j])])
NonBlank(lines) == SelectSeq(lines, LAMBDA b : Strip(b) # "")
Trim(bullets, k) == FirstN(CleanAll(NonBlank(bullets)), k)

\* the key of a field of job idx, and of school idx
JobKey(idx, field) == "Job" \o At(DigitAlphabet, idx + 1) \o "_" \o field
EduKey(idx, field) == "Edu" \o At(DigitAlphabet, idx + 1) \o "_" \o field

\* Job(...).trim(MAX_BULLETS_PER_JOB), s and e being parse_dates of the dates
JobWith(company, role, city, se, bullets) ==
    [company |-> company, role |-> role, city |-> city,
     start   |-> norm_ws(se.start),
     end     |-> norm_ws(se.end),
     bullets |-> Trim(NonBlank(bullets), MAX_BULLETS_PER_JOB)]

\* the Job of the five fields, none when all are empty
JobOf(company, cityst, dates, title, duties) ==
    IF company = "" /\ title = "" /\ duties = "" /\ dates = "" /\ cityst = "" THEN <<>>
    ELSE <<JobWith(cap_first(company), cap_first(title), cap_first(cityst),
                   parse_dates(dates), SplitLines(duties))>>

JobOfForm(form, idx) ==
    JobOf(form[JobKey(idx, "Company")], form[JobKey(idx, "CityState")],
          form[JobKey(idx, "Dates")], form[JobKey(idx, "Title")], form[JobKey(idx, "Duties")])

\* the jobs the context keeps: those with a company, a role or a bullet
ListedJobs(jobs) ==
    SelectSeq(jobs, LAMBDA j : j.company # "" \/ j.role # "" \/ j.bullets # <<>>)

JobsOf(form) ==
    ListedJobs(FirstN(JobOfForm(form, 1) \o JobOfForm(form, 2) \o JobOfForm(form, 3), MAX_JOBS))

\* the School of the four fields, none when all are empty
SchoolOfFields(sch, cs, d, cr) ==
    IF sch = "" /\ cr = "" /\ d = "" /\ cs = "" THEN <<>>
    ELSE <<[school     |-> cap_first(sch),
            credential |-> cap_first(cr),
            year       |-> norm_ws(d),
            details    |-> IF cs # "" THEN cap_first(cs) ELSE ""]>>

SchoolOfForm(form, idx) ==
    SchoolOfFields(form[EduKey(idx, "School")], form[EduKey(idx, "CityState")],
                   form[EduKey(idx, "Dates")], form[EduKey(idx, "Credential")])

ListedSchools(schools) ==
    SelectSeq(schools, LAMBDA s : s.school # "" \/ s.credential # "" \/ s.year # "" \/ s.details # "")

SchoolsOfForm(form) == ListedSchools(SchoolOfForm(form, 1) \o SchoolOfForm(form, 2))

build_resume_context(form, trade_label) ==
    [Name        |-> cap_first(form.Name),
     City        |-> cap_first(form.City),
     State       |-> UpperStr(Strip(form.State)),
     phone       |-> clean_phone(form.Phone),
     email       |-> clean_email(form.Email),
     summary     |-> Summary(form),
     skills      |-> SkillsOf(form),
     certs       |-> CertsOf(form),
     jobs        |-> JobsOf(form),
     schools     |-> SchoolsOfForm(form),
     trade_label |-> trade_label]

\* the paragraphs of the letter, from the scrubbed and the raw fields
LetterParagraphs(data, role, company, trade_label, app_type, contact, hi) ==
    <<data.name, data.city \o ", " \o data.state>>
    \o (IF contact # "" THEN <<contact>> ELSE <<>>)
    \o <<"", today>>
    \o (IF company # "" THEN <<company>> ELSE <<>>)
    \o (IF data.location # "" THEN <<data.location>> ELSE <<>>)
    \o <<"", "Dear Hiring Committee,",
          "I" \o RQuote \o "m applying for a " \o role \o " "
              \o (IF app_type = "Apprenticeship" THEN "apprenticeship" ELSE "position")
              \o " in the " \o trade_label
              \o " scope. I bring reliability, safety awareness, and hands-on readiness.",
          "My background includes tool proficiency, teamwork under real schedules, and a commitment to quality and safe production.">>
    \o (IF hi # <<>>
        THEN <<"Highlights:">> \o [j \in 1..Len(hi) |-> Bullet \o " " \o hi[j]]
        ELSE <<>>)
    \o <<"",
          "Thank you for your consideration. I" \o RQuote
              \o "m ready to support your crew and learn the trade the right way.",
          "", "Sincerely,", data.name>>

build_cover_letter_docx(data) ==
    LetterParagraphs(data,
                     strip_banned(data.role),
                     strip_banned(data.company),
                     strip_banned(data.trade_label),
                     Strip(IF data.application_type # "" THEN data.application_type
                           ELSE "Apprenticeship"),
                     JoinWith(SelectSeq(<<data.phone, data.email>>, LAMBDA x : x # ""), ", "),
                     split_list(strip_banned(data.strength)))

-----------------------------------------------------------------------------
(* Skill mining *)

SUGGESTED_SKILLS == 8
SKILL_BLOCK_LINES == 40

\* the dictionaries, each as the sequence of its items
TRANSFERABLE_KEYWORDS ==
    <<<<"problem", "Problem-solving">>,
      <<"solve", "Problem-solving">>,
      <<"troubleshoot", "Problem-solving">>,
      <<"analyz", "Critical thinking">>,
      <<"priorit", "Time management">>,
      <<"deadline", "Time management">>,
      <<"detail", "Attention to detail">>,
      <<"team", "Teamwork & collaboration">>,
      <<"collabor", "Teamwork & collaboration">>,
      <<"adapt", "Adaptability & willingness to learn">>,
      <<"learn", "Adaptability & willingness to learn">>,
      <<"safety", "Safety awareness">>,
      <<"osha", "Safety awareness">>,
      <<"customer", "Customer service">>,
      <<"lead", "Leadership">>,
      <<"blueprint", "Reading blueprints & specs">>,
      <<"spec", "Reading blueprints & specs">>,
      <<"tool", "Hand & power tools">>,
      <<"drill", "Hand & power tools">>,
      <<"saw", "Hand & power tools">>,
      <<"forklift", "Operating machinery">>,
      <<"material", "Materials handling (wood/concrete/metal)">>,
      <<"machin", "Operating machinery">>,
      <<"math", "Trades math & measurement">>,
      <<"measure", "Trades math & measurement">>,
      <<"code", "Regulatory compliance">>,
      <<"permit", "Regulatory compliance">>,
      <<"compliance", "Regulatory compliance">>,
      <<"stamina", "Physical stamina & dexterity">>,
      <<"lift", "Physical stamina & dexterity">>>>

JOB_SPECIFIC_KEYWORDS ==
    <<<<"hand & power tools", <<"Hand & power tools", "Tool identification", "Safe tool use">>>>,
      <<"blueprint", <<"Reading blueprints & specs", "Plan notes">>>>,
      <<"schematic", <<"Reading blueprints & specs", "Schematic reading">>>>,
      <<"conduit", <<"Hand & power tools", "Layout & measurement">>>>,
      <<"layout", <<"Layout & measurement", "Reading blueprints & specs">>>>,
      <<"rigging", <<"Rigging basics", "Tagline & signals">>>>,
      <<"forklift", <<"Materials handling (wood/concrete/metal)", "Operating machinery">>>>,
      <<"pallet", <<"Materials handling (wood/concrete/metal)">>>>,
      <<"ladder", <<"Ladder safety", "Working at heights">>>>,
      <<"math", <<"Trades math & measurement">>>>,
      <<"measure", <<"Trades math & measurement">>>>,
      <<"tapemeasure", <<"Trades math & measurement">>>>,
      <<"welding", <<"Welding basics">>>>,
      <<"brazing", <<"Brazing/soldering basics">>>>,
      <<"solder", <<"Brazing/soldering basics">>>>,
      <<"lockout", <<"Regulatory compliance">>>>,
      <<"osha", <<"Safety awareness">>>>,
      <<"ppe", <<"Safety awareness">>>>>>

SELF_MGMT_KEYWORDS ==
    <<<<"reliable", <<"Reliability", "On-time attendance">>>>,
      <<"attendance", <<"On-time attendance", "Accountability">>>>,
      <<"team", <<"Teamwork & collaboration">>>>,
      <<"collaborat", <<"Teamwork & collaboration">>>>,
      <<"communication", <<"Communication", "Conflict resolution">>>>,
      <<"customer", <<"Customer service">>>>,
      <<"pace", <<"Time management", "Production focus">>>>,
      <<"deadline", <<"Time management">>>>,
      <<"detail", <<"Attention to detail">>>>,
      <<"learn", <<"Adaptability & willingness to learn">>>>,
      <<"adapt", <<"Adaptability & willingness to learn">>>>,
      <<"lead", <<"Leadership">>>>,
      <<"stamina", <<"Physical stamina & dexterity">>>>>>

ROLE_TO_SKILLS ==
    <<<<"line cook", <<"Hand & power tools", "Knife safety", "Sanitation discipline">>,
          <<"Time management", "Teamwork & collaboration", "Attention to detail">>>>,
      <<"server", <<"Customer service", "Cash handling">>,
          <<"Communication", "Time management", "Teamwork & collaboration">>>>,
      <<"retail", <<"Inventory", "Point-of-sale">>,
          <<"Customer service", "Communication", "Attention to detail">>>>,
      <<"warehouse", <<"Materials handling (wood/concrete/metal)", "Pallet jack", "Forklift basics">>,
          <<"Time management", "Teamwork & collaboration", "Physical stamina & dexterity">>>>,
      <<"barista", <<"Sanitation discipline", "Equipment cleaning">>,
          <<"Customer service", "Time management", "Attention to detail">>>>,
      <<"janitor", <<"Chemical safety", "Equipment cleaning">>,
          <<"Reliability", "Attention to detail", "Independence">>>>,
      <<"custodian", <<"Facility setup", "Materials handling (wood/concrete/metal)">>,
          <<"Reliability", "Time management">>>>,
      <<"mover", <<"Rigging basics", "Materials handling (wood/concrete/metal)">>,
          <<"Physical stamina & dexterity", "Teamwork & collaboration">>>>,
      <<"driver", <<"Load securement", "Route planning">>,
          <<"Time management", "Communication", "Reliability">>>>,
      <<"landscaper", <<"Equipment operation", "Rigging basics">>,
          <<"Physical stamina & dexterity", "Time management">>>>,
      <<"security", <<"Incident reporting">>,
          <<"Communication", "Situational awareness", "Reliability">>>>,
      <<"housekeeper", <<"Equipment cleaning", "Chemical safety">>,
          <<"Attention to detail", "Time management">>>>>>

\* the words that send an explicit label to the job-specific list, and to
\* the self-management list
JOB_SPECIFIC_TOKENS ==
    {"tool", "blueprint", "conduit", "rigging", "forklift", "ladder", "weld", "solder", "braz", "math",
     "measure", "layout", "schematic", "lockout", "osha", "ppe", "inventory", "point-of-sale", "custodian", "janitor"}
SELF_MGMT_TOKENS ==
    {"reliab", "attendance", "team", "collab", "communicat", "customer", "lead", "stamina", "adapt", "learn", "detail", "time"}

SKILLS_SECTION_RE ==
    Cat(<<Star(Set(SpaceSet)),
          Alt(<<LitI("skills"), LitI("core competencies"), LitI("key skills")>>), Wb>>)

SECTION_END_RE ==
    Cat(<<Star(Set(SpaceSet)),
          Alt(<<LitI("experience"), LitI("work history"), LitI("employment"),
                LitI("education"), LitI("objective"), LitI("summary")>>), Wb>>)

CHUNK_LEAD == Cat(<<Star(Set({Bullet, "-"})), Star(Set(SpaceSet))>>)

\* the skills whose keyword occurs in low
SkillHits(low) ==
    {TRANSFERABLE_KEYWORDS[j][2] :
        j \in {n \in 1..Len(TRANSFERABLE_KEYWORDS) : Contains(low, TRANSFERABLE_KEYWORDS[n][1])}}

\* the skills hit, in the order of the canon, the first eight
CanonOrder(hits) == FirstN(SelectSeq(SKILL_CANON, LAMBDA s : s \in hits), SUGGESTED_SKILLS)

suggest_transferable_skills_from_text(text) == CanonOrder(SkillHits(LowerStr(text)))

\* group 1 of the chunk pattern on a non-empty line: the line after its
\* leading bullets and blanks, of which the pattern gives back what the
\* group needs to hold one character
ChunkOf(ln) ==
    SubSeq(ln, SelectSeq(Ends(CHUNK_LEAD, ln, 0), LAMBDA e : e < Len(ln))[1] + 1, Len(ln))

\* the stripped, non-empty pieces of a chunk
ChunkParts(pieces) ==
    SelectSeq([j \in 1..Len(pieces) |-> Strip(pieces[j])], LAMBDA q : q # "")

\* the entries of the block lines from line j on, up to the line last
RECURSIVE BlockFrom(_, _, _)
BlockLine(lines, j, last, ln) ==
    IF ln = "" THEN BlockFrom(lines, j + 1, last)
    ELSE IF Ends(SECTION_END_RE, ln, 0) # <<>> THEN <<>>
    ELSE ChunkParts(SplitFrom(Plus(Set({",", Bullet, ";"})), ChunkOf(ln), 0))
             \o BlockFrom(lines, j + 1, last)

BlockFrom(lines, j, last) ==
    IF j > last \/ j > Len(lines) THEN <<>>
    ELSE BlockLine(lines, j, last, Strip(lines[j]))

\* the block under the first skills heading, at line at (-1: there is none)
BlockUnder(lines, at) ==
    IF at = -1 THEN <<>> ELSE BlockFrom(lines, at + 1, at + SKILL_BLOCK_LINES)

BlockOfLines(lines) ==
    BlockUnder(lines, Leftmost({j \in 1..Len(lines) : Ends(SKILLS_SECTION_RE, lines[j], 0) # <<>>}))

_extract_explicit_skills_block(text) ==
    IF text = "" THEN <<>> ELSE BlockOfLines(SplitLines(text))

\* the normalised labels of the table entries whose keyword occurs in low
KeywordLabels(table, low) ==
    {normalize_skill_label(lab) :
        lab \in UNION {Range(table[j][2]) : j \in {n \in 1..Len(table) : Contains(low, table[n][1])}}}

\* the entries of ROLE_TO_SKILLS whose key occurs in one of the roles
RoleHits(roles) ==
    {j \in 1..Len(ROLE_TO_SKILLS) :
        \E n \in 1..Len(roles) : Contains(Strip(LowerStr(roles[n])), ROLE_TO_SKILLS[j][1])}

\* their normalised labels, job-specific (col = 2) or self-management (col = 3)
RoleLabels(roles, col) ==
    {normalize_skill_label(lab) : lab \in UNION {Range(ROLE_TO_SKILLS[j][col]) : j \in RoleHits(roles)}}

HasToken(lab, tokens) == \E tok \in tokens : Contains(LowerStr(lab), tok)

\* the explicit labels by the list they go to
ExplicitJobSpecific(labs) == {lab \in labs : lab # "" /\ HasToken(lab, JOB_SPECIFIC_TOKENS)}
ExplicitSelfMgmt(labs) ==
    {lab \in labs : lab # "" /\ ~HasToken(lab, JOB_SPECIFIC_TOKENS) /\ HasToken(lab, SELF_MGMT_TOKENS)}
ExplicitTransferable(labs) ==
    {lab \in labs : lab # "" /\ ~HasToken(lab, JOB_SPECIFIC_TOKENS) /\ ~HasToken(lab, SELF_MGMT_TOKENS)}

\* the normalised explicit labels
ExplicitNorm(explicit) == {normalize_skill_label(explicit[j]) : j \in 1..Len(explicit)}

NormLabels(labs) == Listed([j \in 1..Len(labs) |-> normalize_skill_label(labs[j])])

\* the transferable list: the canon, then the pool in sorted order, each
\* label normalised, without case twins, up to the cap
TransferableOf(tr_pool) ==
    FirstN(Deduped(NormLabels(SKILL_CANON \o Sorted(tr_pool))), MAX_SKILLS)

MinedSkills(low, roles, explicit_norm, suggested) ==
    "Transferable" :> TransferableOf(Range(suggested) \cup ExplicitTransferable(explicit_norm))
    @@ "Job-Specific" :> FirstN(Sorted(KeywordLabels(JOB_SPECIFIC_KEYWORDS, low)
                                      \cup RoleLabels(roles, 2)
                                      \cup ExplicitJobSpecific(explicit_norm)), MAX_SKILLS)
    @@ "Self-Management" :> FirstN(Sorted(KeywordLabels(SELF_MGMT_KEYWORDS, low)
                                      \cup RoleLabels(roles, 3)
                                      \cup ExplicitSelfMgmt(explicit_norm)), MAX_SKILLS)

mine_resume_skills(full_text, detected_roles) ==
    MinedSkills(LowerStr(full_text), detected_roles,
                ExplicitNorm(_extract_explicit_skills_block(full_text)),
                suggest_transferable_skills_from_text(full_text))

-----------------------------------------------------------------------------
(* Inputs: the strings made of at most n pieces of T *)

RECURSIVE Strs(_, _)
Strs(T, n) ==
    IF n = 0 THEN {""}
    ELSE LET P == Strs(T, n - 1) IN P \cup {p \o t : p \in P, t \in T}

\* c repeated n times
RECURSIVE Repeat(_, _)
Repeat(c, n) ==
    IF n = 0 THEN ""
    ELSE IF n % 2 = 0 THEN LET h == Repeat(c, n \div 2) IN h \o h
    ELSE c \o Repeat(c, n - 1)

MaxPhonePieces == 4
PhonePieces == {"206", "555", "1234", "1", " ", "\t\n", "(", "x"}

MaxEmailPieces == 4
EmailPieces == {"A", "b", "Z@", " ", "\n", ".", BoldA}

\* resume texts: blank lines, then lines of the pool or the John Doe block
\* with further lines after it
MaxBodyLines == 2
MaxTailLines == 1
MaxLeadOver == 1

LinePool == {"John Doe", "john", "ana  Lee Ray", "Mary-Jane Doe", "Skills",
             "Certifications", " Jane Q Roe | 555.999.8888", ""}

TailPool == {"Jane Roe", "Tacoma, OR", "555-999-8888 j@x.org"}

JohnDoeBlock == <<"John Doe", "Seattle, WA", "(206) 555-1234", "john.doe@example.com">>

RECURSIVE LineSeqs(_, _)
LineSeqs(P, n) ==
    IF n = 0 THEN {<<>>}
    ELSE LET Q == LineSeqs(P, n - 1) IN Q \cup {Append(q, l) : q \in Q, l \in P}

\* the numbers of leading blank lines: none, one, and around the two windows
LeadCounts ==
    {0, 1, FALLBACK_LINES - 1, FALLBACK_LINES, TOP_LINES - 1}
        \cup {TOP_LINES + k : k \in 0..(MaxLeadOver - 1)}

HeaderTexts ==
    {Repeat("\n", k) \o JoinWith(b, "\n") :
        k \in LeadCounts, b \in LineSeqs(LinePool, MaxBodyLines)}
    \cup
    {Repeat("\n", k) \o JoinWith(JohnDoeBlock \o t, "\n") \o e :
        k \in LeadCounts, t \in LineSeqs(TailPool, MaxTailLines), e \in {"", "\n"}}

MaxBannedPieces == 3
BannedPieces == {"inside ", "union", "Union", " wire", "Non-", "local ", "5", "x", " "}

\* an objective whose 450th character is the last of "union" in "unionized"
LongObjective == Repeat("x", MAX_SUMMARY_CHARS - 6) \o " unionized"

Trades == {"Electrician " \o EnDash \o " Inside (01)", "Boilermaker (Local 104, 502)"}

LetterData ==
    [name             : {"Ana Lee"},
     city             : {"Seattle", "Union"},
     state            : {"WA"},
     phone            : {"(206) 555-1234", ""},
     email            : {"ana@example.com"},
     company          : {"", "Acme Electric", "IBEW Local 46"},
     role             : {"Electrician apprentice", "Non-union helper", "inside union wire"},
     location         : {"", "Tacoma, WA", "Union City, NJ"},
     trade_label      : Trades,
     strength         : {"", "Reliable " \o Bullet \o " Safety-focused",
                         "union steward;open\nshop, Coachable"},
     application_type : {"Apprenticeship", "Job", ""}]

-----------------------------------------------------------------------------
(* The instructor packet and the intake CSV *)

\* python-docx puts each text it is given into an element of the document's
\* XML, and lxml raises ValueError on a text that holds a control character
\* other than tab, line feed and carriage return
XmlCompatible(t) == ~Contains(t, Soh)

\* the headings, paragraphs and page breaks the packet is given, in order; a
\* source is a file given by its name and the text extracted from it
PacketParagraphs(student, trade_label, app_type, sources, reflections) ==
    LET meta == "Student: " \o student.name \o " | Target: " \o trade_label
                \o " | Application type: " \o app_type
        RECURSIVE Reflections(_)
        Reflections(j) ==
            IF j > Len(reflections) THEN <<>>
            ELSE <<reflections[j].k \o ":">> \o SplitLines(reflections[j].v) \o Reflections(j + 1)
        RECURSIVE Sources(_)
        Sources(j) ==
            IF j > Len(sources) THEN <<>>
            ELSE <<"<page break>", sources[j].name>>
                 \o (IF Strip(sources[j].text) # "" THEN SplitLines(sources[j].text)
                     ELSE <<"[Text could not be extracted from this file.]">>)
                 \o Sources(j + 1)
    IN  <<"Instructor Pathway Packet", meta, "", "Workshop Reflections">>
        \o Reflections(1) \o Sources(1)

\* the packet written, or the exception of the first text python-docx refuses
PacketOf(ps) ==
    IF \A j \in 1..Len(ps) : XmlCompatible(ps[j])
    THEN [raised |-> FALSE, e |-> "", doc |-> ps]
    ELSE [raised |-> TRUE, doc |-> <<>>,
          e |-> "All strings must be XML compatible: Unicode or ASCII, "
                \o "no NULL bytes or control characters"]

\* a packet that is dated like the letter
build_pathway_packet_docx_dated(student, trade_label, app_type, sources, reflections) ==
    PacketOf(<<today>> \o PacketParagraphs(student, trade_label, app_type, sources, reflections))

build_pathway_packet_docx(student, trade_label, app_type, sources, reflections) ==
    PacketOf(PacketParagraphs(student, trade_label, app_type, sources, reflections))

csv_fields ==
    <<"Name", "City", "State", "Phone", "Email",
      "Objective_Final",
      "Skills_Transferable", "Skills_JobSpecific", "Skills_SelfManagement",
      "Certifications",
      "Job1_Company", "Job1_CityState", "Job1_Dates", "Job1_Title", "Job1_Duties",
      "Job2_Company", "Job2_CityState", "Job2_Dates", "Job2_Title", "Job2_Duties",
      "Job3_Company", "Job3_CityState", "Job3_Dates", "Job3_Title", "Job3_Duties",
      "Edu1_School", "Edu1_CityState", "Edu1_Dates", "Edu1_Credential",
      "Edu2_School", "Edu2_CityState", "Edu2_Dates", "Edu2_Credential">>

\* d.get(k, ""), of the form and of st.session_state
GetStr(s, k) == IF k \in DOMAIN s THEN s[k] ELSE ""

\* csv.writer in the excel dialect: a field that holds the delimiter, the
\* quote character or a character of the line terminator is written in
\* quotes, with each quote character doubled
CsvSpecial == {",", "\"", "\r", "\n"}

CsvField_unquoted(f) == f

CsvField(f) ==
    IF \E j \in 1..Len(f) : At(f, j) \in CsvSpecial
    THEN "\"" \o Sub(Ch("\""), "\"\"", f) \o "\""
    ELSE f

\* writerow: the fields joined by commas, then the line terminator; a row of
\* one empty field is written as a pair of quotes
writerow(row) ==
    (IF row = <<"">> THEN "\"\""
     ELSE JoinWith(Listed([j \in 1..Len(row) |-> CsvField(row[j])]), ","))
    \o "\r\n"

\* the text of the intake CSV: the row of the column names and the row of the
\* form's values
IntakeCsv(form) ==
    writerow(csv_fields)
    \o writerow(Listed([j \in 1..Len(csv_fields) |-> GetStr(form, csv_fields[j])]))

-----------------------------------------------------------------------------
(* The page: the session state by widget key, the template in the          *)
(* repository and in the sidebar uploader, and what the last run of the    *)
(* script put on the page under the Generate button                        *)

\* the text inputs that have a key
HeaderKeys == {"Name", "Phone", "Email", "City", "State"}

\* the keys of the form the Generate click assembles
FormKeys ==
    {csv_fields[j] : j \in 1..Len(csv_fields)} \cup {"Pitch", "Other_Work", "Volunteer"}

DefaultTrade == "Electrician " \o EnDash \o " Inside (01)"

TemplateNotFound ==
    "Template not found. Put resume_app_template.docx in the repo or upload it in the sidebar."

NoDocs == [d \in {} |-> ""]

\* renders, letters and packets count the calls of render_docx_with_template,
\* build_cover_letter_docx and build_pathway_packet_docx in the run
UiIdle ==
    [errors |-> <<>>, built |-> NoDocs, downloads |-> <<>>, success |-> FALSE,
     renders |-> 0, letters |-> 0, packets |-> 0]

\* tpl_bytes of the sidebar: the repository's file, overridden by an upload;
\* "" is no bytes, "docx" a template that renders, "junk" bytes DocxTemplate
\* cannot open
TplBytes(t) ==
    IF t.upload # "none" THEN (IF t.upload = "empty" THEN "" ELSE t.upload)
    ELSE IF t.file # "none" THEN t.file
    ELSE ""

\* render_docx_with_template returns the rendered context, or raises
render_docx_with_template(template_bytes, context) ==
    IF template_bytes = "docx"
    THEN [raised |-> FALSE, e |-> "", bytes |-> context]
    ELSE [raised |-> TRUE, e |-> "File is not a zip file", bytes |-> ""]

\* the problems of an untrimmed validation: blank input passes
Problems_untrimmed(s) ==
    (IF s.Name = "" THEN <<"Name is required.">> ELSE <<>>)
    \o (IF s.Phone = "" /\ s.Email = ""
        THEN <<"At least one contact method (Phone or Email) is required.">> ELSE <<>>)

Problems(s) ==
    (IF Strip(s.Name) = "" THEN <<"Name is required.">> ELSE <<>>)
    \o (IF Strip(s.Phone) = "" /\ Strip(s.Email) = ""
        THEN <<"At least one contact method (Phone or Email) is required.">> ELSE <<>>)

\* a form given by some of its fields, the others empty
FormWith(f) == [k \in FormKeys |-> IF k \in DOMAIN f THEN f[k] ELSE ""]

\* the widgets without a key on a page the user has not touched: the pasted
\* text, the objective, the certifications as typed (<<>>: not typed), the
\* roles selected from the library, the bullets checked under them (role and
\* number), the job to insert into, "Also add aligned skills", and the three
\* skills text areas as typed
SkillAreas == {"Skills_Transferable", "Skills_JobSpecific", "Skills_SelfManagement"}

WdStart ==
    [paste |-> "", objective |-> "", certs |-> <<>>, roles |-> <<>>, checked |-> {},
     target |-> "Job 1", add_skills |-> TRUE, skills |-> [k \in SkillAreas |-> <<>>]]

\* combined_text of a page without uploads
\* a resume with a header, one job with a bullet, a school and a certification
ResumeText ==
    "Ana Lee\nana@example.com\nSeattle, WA\n\nExperience\n"
    \o "Server | Joe's Diner\n2019 - 2021\n- Carried plates, fast\n\n"
    \o "Education\nLincoln High School 2018\n\nCertifications\nOSHA-10\n"

\* the texts the user pastes
PastedTexts == {"", ResumeText}

\* a text of one line: the parsers take it for a name and a job title
NotesText == "see notes"

\* the texts a session may hold
SessionTexts == PastedTexts \cup {NotesText}

\* a dict with its values computed, once each
Built(d) == d @@ [k \in {} |-> ""]

\* the text of no upload, no URL and the pasted text, joined and stripped
CombinedOf(paste) == Strip("\n\n" \o paste)

\* the same for the pasted texts, computed once per text
CombinedOfPasted == Built([t \in SessionTexts |-> CombinedOf(t)])

combined_text(w) ==
    IF w.paste \in SessionTexts THEN CombinedOfPasted[w.paste] ELSE CombinedOf(w.paste)

\* the texts the page then holds, and the skills suggested for each of them
CombinedTexts == SeqOf({CombinedOfPasted[t] : t \in SessionTexts} \ {""})

TextNumber(text) == CHOOSE n \in 1..Len(CombinedTexts) : CombinedTexts[n] = text

SuggestedOfTexts ==
    Listed([n \in 1..Len(CombinedTexts) |->
               suggest_transferable_skills_from_text(CombinedTexts[n])])

\* suggested_skills, the selection of the Quick Add multiselect as it is created
suggested_skills(w) ==
    IF combined_text(w) \in Range(CombinedTexts)
    THEN SuggestedOfTexts[TextNumber(combined_text(w))]
    ELSE suggest_transferable_skills_from_text(combined_text(w))

DefaultCertifications ==
    "OSHA-10, Flagger (WA), Forklift operator (employer evaluation on hire)"

\* the value of the certifications text area: what the user typed into it,
\* or the value it is created with
Certifications(s, w) ==
    IF w.certs # <<>> THEN w.certs[1]
    ELSE IF "Certifications" \in DOMAIN s THEN s.Certifications
    ELSE DefaultCertifications

\* the Quick Add selection, left as suggested, merged into the transferable
\* skills of the session
MergedWith(cur, quick_transfer) ==
    IF quick_transfer = <<>> THEN cur
    ELSE cur \o (IF Strip(cur) # "" THEN ", " ELSE "") \o JoinWith(quick_transfer, ", ")

\* what a skills text area shows and returns: what the user typed into it,
\* or the value of the session it is created with
SkillsArea(s, w, k) == IF w.skills[k] # <<>> THEN w.skills[k][1] ELSE GetStr(s, k)

skills_transfer_final(s, w) ==
    MergedWith(GetStr(s, "Skills_Transferable"), suggested_skills(w))

\* the form of the click
FormOf(s, w) ==
    Built([k \in FormKeys |->
              CASE k = "Objective_Final" -> w.objective
                [] k = "Skills_Transferable" -> skills_transfer_final(s, w)
                [] k = "Certifications" -> Certifications(s, w)
                [] OTHER -> GetStr(s, k)])

CoverLetterData(s) ==
    [name |-> s.Name, city |-> s.City, state |-> s.State,
     phone |-> clean_phone(s.Phone), email |-> clean_email(s.Email),
     company |-> "", role |-> DefaultTrade \o " apprentice", location |-> "",
     trade_label |-> DefaultTrade,
     strength |-> "Reliable " \o Bullet \o " Safety-focused " \o Bullet \o " Coachable",
     application_type |-> "Apprenticeship"]

ReflectionsOf(s, w) ==
    <<[k |-> "Objective (student final)", v |-> w.objective],
      [k |-> "10-second pitch", v |-> GetStr(s, "Pitch")],
      [k |-> "Skills " \o EnDash \o " Transferable", v |-> GetStr(s, "Skills_Transferable")],
      [k |-> "Skills " \o EnDash \o " Job-Specific", v |-> GetStr(s, "Skills_JobSpecific")],
      [k |-> "Skills " \o EnDash \o " Self-Management",
       v |-> GetStr(s, "Skills_SelfManagement")]>>

\* the reflections of a page the user has not touched
WorkshopReflections == ReflectionsOf([k \in HeaderKeys |-> ""], WdStart)

safe_name(s) == Sub(Ch(" "), "_", IF s.Name # "" THEN s.Name ELSE "Student")

\* the documents of a click whose resume rendered, and their download buttons
Documents(s, w, resume_bytes) ==
    [resume |-> resume_bytes,
     cover  |-> build_cover_letter_docx(CoverLetterData(s)),
     packet |-> build_pathway_packet_docx([name |-> s.Name], DefaultTrade, "Apprenticeship",
                                           <<>>, ReflectionsOf(s, w)).doc,
     csv    |-> IntakeCsv(FormOf(s, w))]

Downloads(s) ==
    <<[label |-> "Download Resume (DOCX)", data |-> "resume",
       file_name |-> safe_name(s) \o "_Resume.docx"],
      [label |-> "Download Cover Letter (DOCX)", data |-> "cover",
       file_name |-> safe_name(s) \o "_Cover_Letter.docx"],
      [label |-> "Download Instructor Pathway Packet (DOCX)", data |-> "packet",
       file_name |-> safe_name(s) \o "_Instructor_Pathway_Packet.docx"],
      [label |-> "Download Intake CSV", data |-> "csv",
       file_name |-> safe_name(s) \o "_Workshop_Intake.csv"]>>

\* a click that reports the rendering failure and goes on to the other
\* documents
AfterRender_goes_on(s, w, r) ==
    [errors    |-> IF r.raised THEN <<"Resume template rendering failed: " \o r.e>> ELSE <<>>,
     built     |-> Documents(s, w, r.bytes),
     downloads |-> Downloads(s),
     success   |-> TRUE,
     renders   |-> 1,
     letters   |-> 1,
     packets   |-> 1]

\* the page after render_docx_with_template returned or raised r
AfterRender(s, w, r) ==
    IF r.raised
    THEN [UiIdle EXCEPT !.errors = <<"Resume template rendering failed: " \o r.e>>,
                        !.renders = 1]
    ELSE [errors    |-> <<>>,
          built     |-> Documents(s, w, r.bytes),
          downloads |-> Downloads(s),
          success   |-> TRUE,
          renders   |-> 1,
          letters   |-> 1,
          packets   |-> 1]

\* what one click of Generate puts on the page
GenerateClick(s, w, template_bytes) ==
    IF Problems(s) # <<>>
    THEN [UiIdle EXCEPT !.errors = <<JoinWith(Problems(s), " | ")>>]
    ELSE IF template_bytes = ""
    THEN [UiIdle EXCEPT !.errors = <<TemplateNotFound>>]
    ELSE AfterRender(s, w, render_docx_with_template(template_bytes,
                                                     build_resume_context(FormOf(s, w),
                                                                          DefaultTrade)))

\* what the user may type into a header input
FieldValues(k) ==
    CASE k = "Name"  -> {"", "  ", "ana lee"}
      [] k = "Phone" -> {"", " ", "2065551234"}
      [] k = "Email" -> {"", "\t", "Ana@Example.com"}
      [] k = "City"  -> {"", "seattle"}
      [] k = "State" -> {"", "wa"}

TemplateFiles == {"none", "docx", "junk"}
TemplateUploads == {"none", "empty", "docx", "junk"}

PageStart ==
    /\ ss = [k \in HeaderKeys |-> ""]
    /\ wd = WdStart
    /\ ui = UiIdle
    /\ today = "November 04, 2026"

PageInit == PageStart /\ tpl = [file |-> "docx", upload |-> "none"]

NoCall == call = "" /\ ret = ""

\* the user changes a header input: the script reruns, Generate not clicked
EditField(k, v) ==
    /\ ss[k] # v
    /\ ss' = [ss EXCEPT ![k] = v]
    /\ ui' = UiIdle
    /\ call' = "edit"
    /\ arg' = k
    /\ UNCHANGED <<tpl, wd, today, ret>>

\* the user puts a file into the template uploader, or clears it
UploadTemplate(u) ==
    /\ tpl.upload # u
    /\ tpl' = [tpl EXCEPT !.upload = u]
    /\ ui' = UiIdle
    /\ call' = "upload"
    /\ arg' = u
    /\ UNCHANGED <<ss, wd, today, ret>>

\* the user clicks Generate
Generate ==
    /\ ui' = GenerateClick(ss, wd, TplBytes(tpl))
    /\ call' = "generate"
    /\ arg' = ""
    /\ UNCHANGED <<ss, tpl, wd, today, ret>>

Init ==
    /\ PageStart
    /\ tpl \in [file : TemplateFiles, upload : {"none"}]
    /\ NoCall
    /\ arg = ""

Next ==
    \/ \E k \in HeaderKeys : \E v \in FieldValues(k) : EditField(k, v)
    \/ \E u \in TemplateUploads : UploadTemplate(u)
    \/ Generate

Spec == Init /\ [][Next]_vars

\* the days of a session that is open over midnight
Days == <<"November 04, 2026", "November 05, 2026">>

\* midnight passes: nothing runs, the page stays as it is
DayPasses ==
    /\ today = Days[1]
    /\ today' = Days[2]
    /\ UNCHANGED <<ss, tpl, wd, ui, call, arg, ret>>

NextOverDays == Next \/ DayPasses

SpecOverDays == Init /\ [][NextOverDays]_vars

-----------------------------------------------------------------------------
(* The workshop page: the pasted text and autofill, the role library and   *)
(* the Insert button.  Every event of the user reruns the script from the  *)
(* top; an action is that run.                                             *)

\* st.session_state[k] = v
Put(s, k, v) == (k :> v) @@ s

\* a write that does not look at the value the session holds
set_if_empty_always(s, key, val) == Put(s, key, val)

set_if_empty(s, key, val) ==
    IF key \notin DOMAIN s \/ Strip(s[key]) = "" THEN Put(s, key, val) ELSE s

\* the cell of a key of the session: <<value>>, or <<>> for a key it lacks
CellOf(s, key) == IF key \in DOMAIN s THEN <<s[key]>> ELSE <<>>

\* set_if_empty on the cell of its key
CellIfEmpty(cell, val) == IF cell = <<>> \/ Strip(cell[1]) = "" THEN <<val>> ELSE cell

\* the calls j.. of a list of calls of set_if_empty, on the cell of their key
RECURSIVE CellAfter(_, _, _)
CellAfter(cell, kvs, j) ==
    IF j > Len(kvs) THEN cell ELSE CellAfter(CellIfEmpty(cell, kvs[j][2]), kvs, j + 1)

CallsOn(kvs, key) == SelectSeq(kvs, LAMBDA kv : kv[1] = key)

\* the calls of set_if_empty of a list of keys and values, in order: a call
\* reads and writes the cell of its key only, so each key is worked out from
\* the calls on it
SetAllIfEmpty(s, kvs) ==
    Built([key \in DOMAIN s \cup {kvs[j][1] : j \in 1..Len(kvs)} |->
              CellAfter(CellOf(s, key), CallsOn(kvs, key), 1)[1]])

\* the sequences of a sequence, one after the other
RECURSIVE ChainFrom(_, _)
ChainFrom(seqs, j) == IF j > Len(seqs) THEN <<>> ELSE seqs[j] \o ChainFrom(seqs, j + 1)

Chain(seqs) == ChainFrom(Listed(seqs), 1)

HeaderWrites(hdr) ==
    <<<<"Name", hdr.Name>>, <<"Phone", hdr.Phone>>, <<"Email", hdr.Email>>,
      <<"City", hdr.City>>, <<"State", hdr.State>>>>

\* start and end joined by an en dash, without outer blanks and dashes
JobDates(j) ==
    StripChars(JoinWith(SelectSeq(<<j.start, j.end>>, LAMBDA x : x # ""),
                        " " \o EnDash \o " "),
               {" ", EnDash})

NoJob == [company |-> "", role |-> "", city |-> "", start |-> "", end |-> "", bullets |-> <<>>]

JobWritesOf(idx, j) ==
    <<<<JobKey(idx, "Company"), j.company>>, <<JobKey(idx, "CityState"), j.city>>,
      <<JobKey(idx, "Dates"), JobDates(j)>>, <<JobKey(idx, "Title"), j.role>>>>
    \o (IF j.bullets # <<>>
        THEN <<<<JobKey(idx, "Duties"),
                 JoinWith(FirstN(j.bullets, MAX_BULLETS_PER_JOB), "\n")>>>>
        ELSE <<>>)

JobWrites(jobs) ==
    Chain([idx \in 1..MAX_JOBS |->
              JobWritesOf(idx, IF idx <= Len(jobs) THEN jobs[idx] ELSE NoJob)])

NoSchool == [school |-> "", credential |-> "", year |-> "", details |-> ""]

SchoolWritesOf(idx, sc) ==
    <<<<EduKey(idx, "School"), sc.school>>, <<EduKey(idx, "CityState"), sc.details>>,
      <<EduKey(idx, "Dates"), sc.year>>, <<EduKey(idx, "Credential"), sc.credential>>>>

SchoolWrites(schools) ==
    Chain([idx \in 1..MAX_SCHOOLS |->
              SchoolWritesOf(idx, IF idx <= Len(schools) THEN schools[idx] ELSE NoSchool)])

CertWrites(certs) ==
    IF certs # <<>> THEN <<<<"Certifications", JoinWith(certs, ", ")>>>> ELSE <<>>

SkillWriteOf(key, labs) == IF labs # <<>> THEN <<<<key, JoinWith(labs, ", ")>>>> ELSE <<>>

SkillWrites(skills_cat) ==
    SkillWriteOf("Skills_Transferable", skills_cat["Transferable"])
    \o SkillWriteOf("Skills_JobSpecific", skills_cat["Job-Specific"])
    \o SkillWriteOf("Skills_SelfManagement", skills_cat["Self-Management"])

LowerRoles(jobs) == Listed([n \in 1..Len(jobs) |-> LowerStr(jobs[n].role)])

build_objective_recos(trade) ==
    <<"Seeking entry into a " \o trade \o " apprenticeship" \o EmDash
          \o "show up safe, learn fast, support the crew.",
      "Looking for hands-on work in " \o trade \o EmDash
          \o "reliable, safety-minded, ready to learn on pace.",
      "Aiming to start in " \o trade
          \o ": bring safety, teamwork, and clean work habits; build skill the right way.">>

\* the recommendations are set while the session holds no objective
WithRecos(s, trade) ==
    IF Strip(GetStr(s, "Objective_Final")) = ""
    THEN Put(s, "Objective_Recos", build_objective_recos(trade))
    ELSE s

\* the calls of set_if_empty of one autofill, in order
AutofillWrites(text, jobs) ==
    HeaderWrites(parse_header(text)) \o JobWrites(jobs)
    \o SchoolWrites(parse_education(text)) \o CertWrites(parse_certs(text))
    \o SkillWrites(mine_resume_skills(text, LowerRoles(jobs)))

\* the session after the jobs of the text were parsed; autofilled_jobs is a
\* key of no call of set_if_empty
AutofillWith(s, jobs, writes, trade) ==
    WithRecos(SetAllIfEmpty(Put(s, "autofilled_jobs", jobs), writes), trade)


\* what the parsers make of each of these texts, computed once per text
RECURSIVE JobsOfTexts(_)
JobsOfTexts(ts) ==
    IF ts = <<>> THEN <<>> ELSE <<parse_jobs(Head(ts))>> \o JobsOfTexts(Tail(ts))

RECURSIVE WritesOfTexts(_)
WritesOfTexts(ts) ==
    IF ts = <<>> THEN <<>>
    ELSE <<AutofillWrites(Head(ts), parse_jobs(Head(ts)))>> \o WritesOfTexts(Tail(ts))

ParsedJobs == JobsOfTexts(CombinedTexts)
ParsedWrites == WritesOfTexts(CombinedTexts)

autofill_from_text(s, text, trade) ==
    AutofillWith(s, ParsedJobs[TextNumber(text)], ParsedWrites[TextNumber(text)], trade)

\* an automatic autofill that does not look at autofilled_once
AutoRun_every_run(s, w) ==
    IF combined_text(w) # ""
    THEN Put(autofill_from_text(s, combined_text(w), GetStr(s, "SelectedTrade")),
             "autofilled_once", TRUE)
    ELSE s

\* the automatic autofill of a script run
AutoRun(s, w) ==
    IF combined_text(w) # "" /\ ~s.autofilled_once
    THEN Put(autofill_from_text(s, combined_text(w), GetStr(s, "SelectedTrade")),
             "autofilled_once", TRUE)
    ELSE s

BUILTIN_ROLE_BULLETS ==
    <<[role |-> "Line Cook",
       bullets |-> <<"Worked safely around hot equipment and sharp tools",
                     "Kept stations clean and organized; followed prep lists",
                     "Handled deliveries and rotated stock; kept walkways clear",
                     "Stayed on pace to meet production during rushes">>],
      [role |-> "Server",
       bullets |-> <<"Communicated with customers and team under time pressure",
                     "Handled cash counts and hand-offs accurately",
                     "Kept stations clean; restocked and closed down per checklist">>],
      [role |-> "Warehouse",
       bullets |-> <<"Staged materials and verified counts; kept aisles clear",
                     "Operated pallet jacks/hand trucks under PPE rules">>],
      [role |-> "Retail",
       bullets |-> <<"Kept inventory organized; assisted customers with products",
                     "Operated POS accurately and closed out drawers cleanly">>]>>

\* roles.setdefault(role, [])
SetDefault(roles, role) ==
    IF \E n \in 1..Len(roles) : roles[n].role = role THEN roles
    ELSE Append(roles, [role |-> role, bullets |-> <<>>])

\* roles[role].append(b)
AddBullet(roles, role, b) ==
    [n \in 1..Len(roles) |->
        IF roles[n].role = role THEN [roles[n] EXCEPT !.bullets = Append(@, b)] ELSE roles[n]]

HasPrefix(s, w) == Len(s) >= Len(w) /\ SubSeq(s, 1, Len(w)) = w
HasSuffix(s, w) == Len(s) >= Len(w) /\ SubSeq(s, Len(s) - Len(w) + 1, Len(s)) = w

\* ^##\s*Role\s*:\s* and (role\s*:\s*) with re.I
ROLE_COLON == Cat(<<LitI("role"), Star(Set(SpaceSet)), Ch(":"), Star(Set(SpaceSet))>>)
ROLE_HEADING == Cat(<<Lit("##"), Star(Set(SpaceSet)), ROLE_COLON>>)

\* ^[bullet, hyphen]+\s* and ^[bullet, hyphen]\s+
LIBRARY_LEAD == Cat(<<Plus(Set({Bullet, "-"})), Star(Set(SpaceSet))>>)
LIBRARY_BULLET == Cat(<<Set({Bullet, "-"}), Plus(Set(SpaceSet))>>)

\* where the group (.+)$ after a match of re at the start of line begins:
\* the first end of re that leaves a character for the group, 0 when none
GroupAfter(re, line) ==
    IF SelectSeq(Ends(re, line, 0), LAMBDA e : e < Len(line)) = <<>> THEN 0
    ELSE SelectSeq(Ends(re, line, 0), LAMBDA e : e < Len(line))[1] + 1

\* one line of the text file, stripped and not blank
TxtLine(roles, current, line) ==
    IF GroupAfter(ROLE_HEADING, line) # 0
    THEN [roles |-> SetDefault(roles, cap_first(Strip(SubSeq(line, GroupAfter(ROLE_HEADING, line),
                                                            Len(line))))),
          current |-> cap_first(Strip(SubSeq(line, GroupAfter(ROLE_HEADING, line), Len(line))))]
    ELSE IF current # "" /\ Strip(WithoutLead(LIBRARY_LEAD, line)) # ""
    THEN [roles |-> AddBullet(roles, current,
                              clean_bullet(Strip(WithoutLead(LIBRARY_LEAD, line)))),
          current |-> current]
    ELSE [roles |-> roles, current |-> current]

RECURSIVE TxtLinesFrom(_, _, _)
TxtLinesFrom(lines, j, st) ==
    IF j > Len(lines) THEN st.roles
    ELSE TxtLinesFrom(lines, j + 1,
                      IF Strip(lines[j]) = "" THEN st
                      ELSE TxtLine(st.roles, st.current, Strip(lines[j])))

\* the roles as a list of role and bullets, in the order of the dict
parse_job_history_txt(text) ==
    TxtLinesFrom(SplitLines(text), 1, [roles |-> <<>>, current |-> ""])

\* group 2 of re.search(r"(role\s*:\s*)?(.+)$", text, re.I): the match starts
\* at the first character
HeadingLabel(text) ==
    IF GroupAfter(ROLE_COLON, text) # 0 THEN SubSeq(text, GroupAfter(ROLE_COLON, text), Len(text))
    ELSE text

\* one paragraph of the document, its text stripped and not blank, sty the
\* name of its style in lower case
DocxParagraph(roles, current, text, sty) ==
    IF Contains(sty, "heading") \/ HasPrefix(LowerStr(text), "role:")
    THEN [roles |-> SetDefault(roles, cap_first(Strip(HeadingLabel(text)))),
          current |-> cap_first(Strip(HeadingLabel(text)))]
    ELSE IF current # "" /\ (Contains(sty, "list bullet") \/ Ends(LIBRARY_BULLET, text, 0) # <<>>)
    THEN [roles |-> AddBullet(roles, current, clean_bullet(WithoutLead(LIBRARY_LEAD, text))),
          current |-> current]
    ELSE [roles |-> roles, current |-> current]

RECURSIVE DocxParagraphsFrom(_, _, _)
DocxParagraphsFrom(ps, j, st) ==
    IF j > Len(ps) THEN st.roles
    ELSE DocxParagraphsFrom(ps, j + 1,
                            IF Strip(ps[j].text) = "" THEN st
                            ELSE DocxParagraph(st.roles, st.current, Strip(ps[j].text),
                                               LowerStr(ps[j].style)))

\* no role when python-docx cannot open the file
parse_job_history_docx(file) ==
    IF file.opens THEN DocxParagraphsFrom(file.paragraphs, 1, [roles |-> <<>>, current |-> ""])
    ELSE <<>>

\* an uploaded file: its name, whether python-docx opens it, its paragraphs
\* then, and its bytes as text
NoUpload == [given |-> FALSE, name |-> "", opens |-> FALSE, paragraphs |-> <<>>, text |-> ""]

\* the roles parsed from the upload
ParsedLibrary(upload_file) ==
    IF ~upload_file.given THEN <<>>
    ELSE IF HasSuffix(LowerStr(upload_file.name), ".docx") THEN parse_job_history_docx(upload_file)
    ELSE IF HasSuffix(LowerStr(upload_file.name), ".txt") THEN parse_job_history_txt(upload_file.text)
    ELSE <<>>

\* a merge that adds every built-in role
WithSeeds_all(library) == library \o BUILTIN_ROLE_BULLETS

\* the library, then the built-in roles it does not have under any letter
\* case
WithSeeds(library) ==
    library
    \o SelectSeq(BUILTIN_ROLE_BULLETS,
                 LAMBDA e : \A n \in 1..Len(library) :
                                LowerStr(library[n].role) # LowerStr(e.role))

load_job_history_library(upload_file) == WithSeeds(ParsedLibrary(upload_file))

\* the library of a page without a Job History Master: nothing is parsed,
\* the library is the built-in roles
role_library == WithSeeds(<<>>)

\* role_library.get(role, [])
BulletsOf(lib, role) ==
    IF \E n \in 1..Len(lib) : lib[n].role = role
    THEN lib[CHOOSE n \in 1..Len(lib) : lib[n].role = role].bullets
    ELSE <<>>

\* the options of the roles multiselect
all_roles(s) ==
    {role_library[n].role : n \in 1..Len(role_library)}
    \cup (IF "autofilled_jobs" \in DOMAIN s
          THEN {cap_first(Strip(j.role)) : j \in {x \in Range(s.autofilled_jobs) : Strip(x.role) # ""}}
          ELSE {})

\* the checkboxes the page shows: one per bullet of each selected role
Boxes(roles) ==
    UNION {{<<r, i>> : i \in 1..Len(BulletsOf(role_library, r))} : r \in Range(roles)}

\* the widgets after a run that took the session from s to t: a multiselect
\* or text area without a key starts again when its options or the value it
\* is created with change, and a checkbox that is not shown loses its state
WidgetsKept(w, same_roles, same_certs) ==
    [w EXCEPT !.roles = IF same_roles THEN w.roles ELSE <<>>,
              !.checked = IF same_roles THEN w.checked \cap Boxes(w.roles) ELSE {},
              !.certs = IF same_certs THEN w.certs ELSE <<>>]

WidgetsAfter(s, t, w) ==
    [WidgetsKept(w, all_roles(t) = all_roles(s),
                 Certifications(t, WdStart) = Certifications(s, WdStart))
        EXCEPT !.skills = [k \in SkillAreas |->
                              IF GetStr(t, k) = GetStr(s, k) THEN w.skills[k] ELSE <<>>]]

ChosenOfRole(role, bullets, checked) ==
    Pick(Listed([i \in 1..Len(bullets) |-> [role |-> role, b |-> bullets[i]]]),
         {i \in 1..Len(bullets) : <<role, i>> \in checked})

\* chosen: the checked bullets of the selected roles, with their roles
chosen(w) ==
    Chain([n \in 1..Len(w.roles) |->
              Unwrap(ChosenOfRole(w.roles[n], BulletsOf(role_library, w.roles[n]), w.checked))])

\* the items that cur does not hold yet, added at its end in order
RECURSIVE AppendNew(_, _)
AppendNew(cur, new) ==
    IF new = <<>> THEN cur
    ELSE AppendNew(IF Head(new) \in Range(cur) THEN cur ELSE Append(cur, Head(new)), Tail(new))

\* an append that keeps every line
_append_to_job_duties_uncut(s, job_key, new_lines) ==
    Put(s, job_key,
        JoinWith(AppendNew(NonBlank(SplitLines(GetStr(s, job_key))), new_lines), "\n"))

_append_to_job_duties(s, job_key, new_lines) ==
    Put(s, job_key,
        JoinWith(FirstN(AppendNew(NonBlank(SplitLines(GetStr(s, job_key))), new_lines),
                        MAX_BULLETS_PER_JOB),
                 "\n"))

\* the skills of ROLE_TO_SKILLS for the roles, job-specific (col = 2) or
\* self-management (col = 3), in the order the loops meet them
AlignedSkills(roles, col) ==
    Chain([n \in 1..Len(roles) |->
              Chain([j \in 1..Len(ROLE_TO_SKILLS) |->
                        IF Contains(LowerStr(roles[n]), ROLE_TO_SKILLS[j][1])
                        THEN ROLE_TO_SKILLS[j][col] ELSE <<>>])])

_append_skills_for_roles(s, roles) ==
    Put(Put(s, "Skills_Transferable",
            JoinWith(FirstN(AppendNew(split_list(GetStr(s, "Skills_Transferable")),
                                      AlignedSkills(roles, 3)), MAX_SKILLS), ", ")),
        "Skills_JobSpecific",
        JoinWith(FirstN(AppendNew(split_list(GetStr(s, "Skills_JobSpecific")),
                                  AlignedSkills(roles, 2)), MAX_SKILLS), ", "))

targets_always_job1(insert_target) == "Job1_Duties"

targets(insert_target) ==
    CASE insert_target = "Job 1" -> "Job1_Duties"
      [] insert_target = "Job 2" -> "Job2_Duties"
      [] insert_target = "Job 3" -> "Job3_Duties"

RolesOnly(ch) == Listed([n \in 1..Len(ch) |-> ch[n].role])
BulletsOnly(ch) == Listed([n \in 1..Len(ch) |-> ch[n].b])

Inserted(s, w, ch) ==
    IF w.add_skills
    THEN _append_skills_for_roles(_append_to_job_duties(s, targets(w.target), BulletsOnly(ch)),
                                  RolesOnly(ch))
    ELSE _append_to_job_duties(s, targets(w.target), BulletsOnly(ch))

Numeral(n) == IF n < 10 THEN At(DigitAlphabet, n + 1)
              ELSE At(DigitAlphabet, (n \div 10) + 1) \o At(DigitAlphabet, (n % 10) + 1)

\* the session after a click of "Insert selected bullets", and what the page
\* says about it
InsertClick(s, w, ch) ==
    IF ch # <<>>
    THEN [ss |-> Inserted(s, w, ch),
          said |-> "Inserted " \o Numeral(Len(ch)) \o " bullet(s) into " \o w.target
                   \o " and updated skills."]
    ELSE [ss |-> s, said |-> "Select at least one bullet from the role lists above."]

\* the session of a page that has run once, the header filled in
WorkshopKeys ==
    HeaderKeys
    \cup {JobKey(idx, f) : idx \in 1..MAX_JOBS,
                           f \in {"Company", "CityState", "Dates", "Title", "Duties"}}
    \cup {EduKey(idx, f) : idx \in 1..MAX_SCHOOLS,
                           f \in {"School", "CityState", "Dates", "Credential"}}
    \cup {"Pitch"}

WorkshopStart ==
    [k \in WorkshopKeys |->
        CASE k = "Name" -> "ana lee" [] k = "Phone" -> "2065551234" [] OTHER -> ""]
    @@ [autofilled_once |-> FALSE, chosen_bullets |-> <<>>, SelectedTrade |-> DefaultTrade]

\* what the user types, selects and checks
TypedDuties == {"said \"go\", left\ndug trench"}
RoleSelections == {<<>>, <<"Server">>}
CheckBoxes == {<<"Server", 2>>}
InsertTargets == {"Job 1", "Job 2", "Job 3"}

\* the user pastes a text, or clears the box
Paste(t) ==
    /\ t # wd.paste
    /\ ss' = AutoRun(ss, [wd EXCEPT !.paste = t])
    /\ wd' = WidgetsAfter(ss, ss', [wd EXCEPT !.paste = t])
    /\ ui' = UiIdle
    /\ call' = "rerun"
    /\ ret' = ""
    /\ UNCHANGED <<tpl, today, arg>>

\* the user clicks "Auto-Fill from Uploaded Text", enabled while there is text
ClickAutoFill ==
    /\ combined_text(wd) # ""
    /\ \E s \in {AutoRun(ss, wd)} :
           ss' = autofill_from_text(s, combined_text(wd), GetStr(s, "SelectedTrade"))
    /\ wd' = WidgetsAfter(ss, ss', wd)
    /\ ui' = UiIdle
    /\ call' = "autofill"
    /\ ret' = ""
    /\ UNCHANGED <<tpl, today, arg>>

\* the user types into the duties of job 1
TypeDuties(v) ==
    /\ ss.Job1_Duties # v
    /\ ss' = AutoRun(Put(ss, "Job1_Duties", v), wd)
    /\ wd' = WidgetsAfter(ss, ss', wd)
    /\ ui' = UiIdle
    /\ call' = "rerun"
    /\ ret' = ""
    /\ UNCHANGED <<tpl, today, arg>>

\* the user changes the selection of roles
SelectRoles(rs) ==
    /\ rs # wd.roles
    /\ Range(rs) \subseteq all_roles(ss)
    /\ ss' = AutoRun(ss, wd)
    /\ wd' = WidgetsAfter(ss, ss', [wd EXCEPT !.roles = rs,
                                              !.checked = wd.checked \cap Boxes(rs)])
    /\ ui' = UiIdle
    /\ call' = "rerun"
    /\ ret' = ""
    /\ UNCHANGED <<tpl, today, arg>>

\* the user checks or unchecks the box of a bullet
Check(c) ==
    /\ c \in Boxes(wd.roles)
    /\ ss' = AutoRun(ss, wd)
    /\ wd' = WidgetsAfter(ss, ss',
                          [wd EXCEPT !.checked = IF c \in wd.checked THEN wd.checked \ {c}
                                                  ELSE wd.checked \cup {c}])
    /\ ui' = UiIdle
    /\ call' = "rerun"
    /\ ret' = ""
    /\ UNCHANGED <<tpl, today, arg>>

\* the user picks the job to insert into
ChooseTarget(t) ==
    /\ t # wd.target
    /\ ss' = AutoRun(ss, wd)
    /\ wd' = WidgetsAfter(ss, ss', [wd EXCEPT !.target = t])
    /\ ui' = UiIdle
    /\ call' = "rerun"
    /\ ret' = ""
    /\ UNCHANGED <<tpl, today, arg>>

\* the user clicks "Insert selected bullets"; ret is what the page says
ClickInsert ==
    /\ \E r \in {InsertClick(AutoRun(ss, wd), wd, chosen(wd))} :
           ss' = r.ss /\ ret' = r.said
    /\ wd' = WidgetsAfter(ss, ss', wd)
    /\ ui' = UiIdle
    /\ call' = "insert"
    /\ UNCHANGED <<tpl, today, arg>>

\* the user clicks Generate
ClickGenerate ==
    /\ ss' = AutoRun(ss, wd)
    /\ wd' = WidgetsAfter(ss, ss', wd)
    /\ ui' = GenerateClick(ss', wd', TplBytes(tpl))
    /\ call' = "generate"
    /\ ret' = ""
    /\ UNCHANGED <<tpl, today, arg>>

InitWorkshop ==
    /\ ss = WorkshopStart
    /\ wd = WdStart
    /\ ui = UiIdle
    /\ today = "November 04, 2026"
    /\ tpl = [file |-> "docx", upload |-> "none"]
    /\ NoCall
    /\ arg = ""

NextWorkshop ==
    \/ \E t \in PastedTexts : Paste(t)
    \/ ClickAutoFill
    \/ \E v \in TypedDuties : TypeDuties(v)
    \/ \E rs \in RoleSelections : SelectRoles(rs)
    \/ \E c \in CheckBoxes : Check(c)
    \/ \E t \in InsertTargets : ChooseTarget(t)
    \/ ClickInsert
    \/ ClickGenerate

SpecWorkshop == InitWorkshop /\ [][NextWorkshop]_vars

\* parse_jobs statement by statement.  call is the place in the function:
\* "while" at the head of the outer loop, "scan" at the head of the inner
\* loop, "append" after it, "return" at the end; ret holds the locals, i and
\* j counted from 1

\* one pass of the inner loop that appends every bullet
ScanOnce_no_cap(lines, j, bullets, ln) ==
    IF ln = "" THEN [j |-> IF bullets # <<>> THEN j ELSE j + 1, bullets |-> bullets,
                     stop |-> bullets # <<>>]
    ELSE IF IsHeading(ln) THEN [j |-> j, bullets |-> bullets, stop |-> TRUE]
    ELSE IF Ends(BULLET_MARK, ln, 0) # <<>> \/ At(lines[j], 1) = "\t"
    THEN [j |-> j + 1, stop |-> FALSE,
          bullets |-> Append(bullets, clean_bullet(WithoutLead(BULLET_LEAD, ln)))]
    ELSE [j |-> j + 1, bullets |-> bullets, stop |-> FALSE]

\* one pass of the inner loop at line j: the locals after it, stop when it
\* leaves the loop by break
ScanOnce(lines, j, bullets, ln) ==
    IF ln = "" THEN [j |-> IF bullets # <<>> THEN j ELSE j + 1, bullets |-> bullets,
                     stop |-> bullets # <<>>]
    ELSE IF IsHeading(ln) THEN [j |-> j, bullets |-> bullets, stop |-> TRUE]
    ELSE IF Ends(BULLET_MARK, ln, 0) # <<>> \/ At(lines[j], 1) = "\t"
    THEN [j |-> IF Len(bullets) + 1 >= MAX_BULLETS_PER_JOB THEN j ELSE j + 1,
          bullets |-> Append(bullets, clean_bullet(WithoutLead(BULLET_LEAD, ln))),
          stop |-> Len(bullets) + 1 >= MAX_BULLETS_PER_JOB]
    ELSE IF /\ ~(Found(DATE_RANGE_RE, ln) \/ Found(CITY_STATE_RE, ln))
            /\ Len(WordsOf(ln, "")) <= SHORT_LINE_WORDS
            /\ bullets # <<>>
    THEN [j |-> j, bullets |-> bullets, stop |-> TRUE]
    ELSE [j |-> j + 1, bullets |-> bullets, stop |-> FALSE]

\* the texts parse_jobs is given: a head line with a bullet, bullets, blank
\* lines and section headings
MaxJobBlocks == 5
JobBlocks == {"Cook | Diner\n* dug\n", "\tran the grill.\n", "\n", "Skills\n"}

JobsEnter ==
    /\ call = ""
    /\ call' = "while"
    /\ ret' = [lines |-> RStripAll(SplitLines(arg)), i |-> 1, j |-> 1, out |-> <<>>,
               bullets |-> <<>>]
    /\ UNCHANGED <<ss, tpl, wd, ui, today, arg>>

\* while i < len(lines) and len(out) < MAX_JOBS
JobsGoOn == ret.i <= Len(ret.lines) /\ Len(ret.out) < MAX_JOBS

SkippedHead(head) == head = "" \/ IsHeading(head)

\* a blank line or a section heading: i += 1; continue
JobsSkip ==
    /\ call = "while"
    /\ JobsGoOn
    /\ SkippedHead(Strip(ret.lines[ret.i]))
    /\ ret' = [ret EXCEPT !.i = @ + 1]
    /\ UNCHANGED <<ss, tpl, wd, ui, today, arg, call>>

\* a head line: bullets = []; j = i + 1
JobsHead ==
    /\ call = "while"
    /\ JobsGoOn
    /\ ~SkippedHead(Strip(ret.lines[ret.i]))
    /\ call' = "scan"
    /\ ret' = [ret EXCEPT !.j = ret.i + 1, !.bullets = <<>>]
    /\ UNCHANGED <<ss, tpl, wd, ui, today, arg>>

\* one pass of the inner loop
ScanLine ==
    /\ call = "scan"
    /\ ret.j <= Len(ret.lines)
    /\ \E r \in {ScanOnce(ret.lines, ret.j, ret.bullets, Strip(ret.lines[ret.j]))} :
           /\ ret' = [ret EXCEPT !.j = r.j, !.bullets = r.bullets]
           /\ call' = IF r.stop THEN "append" ELSE "scan"
    /\ UNCHANGED <<ss, tpl, wd, ui, today, arg>>

\* the inner loop ends at the last line
ScanEnd ==
    /\ call = "scan"
    /\ ret.j > Len(ret.lines)
    /\ call' = "append"
    /\ UNCHANGED <<ss, tpl, wd, ui, today, arg, ret>>

\* out.append(...); i = max(j, i+1)
JobsAppend ==
    /\ call = "append"
    /\ call' = "while"
    /\ ret' = [ret EXCEPT !.out = @ \o JobOfWindow(Strip(ret.lines[ret.i]),
                                                    Window(ret.lines, ret.i), ret.bullets),
                          !.i = Max(ret.j, ret.i + 1)]
    /\ UNCHANGED <<ss, tpl, wd, ui, today, arg>>

\* return out[:MAX_JOBS]
JobsReturn ==
    /\ call = "while"
    /\ ~JobsGoOn
    /\ call' = "return"
    /\ ret' = [ret EXCEPT !.out = FirstN(@, MAX_JOBS)]
    /\ UNCHANGED <<ss, tpl, wd, ui, today, arg>>

InitJobsLoop == PageInit /\ NoCall /\ arg \in Strs(JobBlocks, MaxJobBlocks)

NextJobsLoop ==
    \/ JobsEnter
    \/ JobsSkip
    \/ JobsHead
    \/ ScanLine
    \/ ScanEnd
    \/ JobsAppend
    \/ JobsReturn

\* the interpreter goes on to the next statement.  Every statement changes
\* call, i or j, so a step can be taken exactly when parse_jobs has not
\* returned: this is WF_vars(NextJobsLoop) with its ENABLED written out
JobsGoesOn == []<>(call = "return") \/ []<><<call # "return">>_vars

SpecJobsLoop == InitJobsLoop /\ [][NextJobsLoop]_vars /\ JobsGoesOn

\* the Job History Master files: the lines of a text file and the
\* paragraphs of a document
MaxLibraryLines == 3
LibraryLines ==
    {"## Role: server\n", "##role:Welder\n", "- Responsible for cash.\n", "* ran the grill\n",
     "\n", "## Role:\n"}
LibraryParagraphs ==
    {[text |-> "Server", style |-> "Heading 1"], [text |-> "role: line cook", style |-> "Normal"],
     [text |-> "- Swept floors.", style |-> "Normal"],
     [text |-> "Ran the grill", style |-> "List Bullet"],
     [text |-> "see notes", style |-> "Normal"]}

ParagraphLists ==
    UNION {[1..n -> LibraryParagraphs] : n \in 0..MaxLibraryLines}

LibraryUploads ==
    {NoUpload}
    \cup {[given |-> TRUE, name |-> n, opens |-> FALSE, paragraphs |-> <<>>, text |-> x] :
              n \in {"roles.txt", "roles.pdf", "Broken.docx"},
              x \in Strs(LibraryLines, MaxLibraryLines)}
    \cup {[given |-> TRUE, name |-> "Roles.DOCX", opens |-> TRUE, paragraphs |-> ps, text |-> ""] :
              ps \in ParagraphLists}

CallLoadLibrary ==
    /\ call = ""
    /\ call' = "load_job_history_library"
    /\ ret' = load_job_history_library(arg)
    /\ UNCHANGED <<ss, tpl, wd, ui, today, arg>>

InitLibrary == PageInit /\ NoCall /\ arg \in LibraryUploads
NextLibrary == CallLoadLibrary
SpecLibrary == InitLibrary /\ [][NextLibrary]_vars

\* the duties a user has typed before turning to the role library: none,
\* two lines, three lines one of them a bullet of the library, and five
\* lines with a blank line and outer blanks
DutiesTyped ==
    {"", "said \"go\", left\ndug trench",
     "Swept floors\nHandled cash counts and hand-offs accurately\nLocked up",
     "a\n\n b \nc\nd\ne"}

\* the boxes the user checks and unchecks
InsertBoxes == {<<"Server", 1>>, <<"Server", 2>>}

\* the page of a user who typed the duties of job 1 and job 2
InitInsert ==
    /\ \E d \in DutiesTyped :
           ss = Put(Put(WorkshopStart, "Job1_Duties", d), "Job2_Duties", "Swept floors")
    /\ wd = WdStart
    /\ ui = UiIdle
    /\ today = "November 04, 2026"
    /\ tpl = [file |-> "docx", upload |-> "none"]
    /\ NoCall
    /\ arg = ""

\* the role library and the Insert button
NextInsert ==
    \/ \E rs \in RoleSelections : SelectRoles(rs)
    \/ \E c \in InsertBoxes : Check(c)
    \/ \E t \in InsertTargets : ChooseTarget(t)
    \/ ClickInsert

SpecInsert == InitInsert /\ [][NextInsert]_vars

\* the user types v into the input with key k, or clears it
TypeInto(k, v) ==
    /\ GetStr(ss, k) # v
    /\ ss' = AutoRun(Put(ss, k, v), wd)
    /\ wd' = WidgetsAfter(ss, ss', wd)
    /\ ui' = UiIdle
    /\ call' = "type"
    /\ arg' = k
    /\ ret' = ""
    /\ UNCHANGED <<tpl, today>>

TypedKeys == {"Email", "City", "Job1_Company"}

TypedValues(k) == IF k \in HeaderKeys THEN FieldValues(k) ELSE {"", "Acme"}

\* the page with the pasted text, the Auto-Fill button and three of the inputs
NextAutofill ==
    \/ \E t \in SessionTexts : Paste(t)
    \/ ClickAutoFill
    \/ \E k \in TypedKeys : \E v \in TypedValues(k) : TypeInto(k, v)

SpecAutofill == InitWorkshop /\ [][NextAutofill]_vars

\* the user types v into one of the three skills text areas, or clears it
TypeSkills(k, v) ==
    /\ SkillsArea(ss, wd, k) # v
    /\ ss' = AutoRun(ss, wd)
    /\ wd' = WidgetsAfter(ss, ss', [wd EXCEPT !.skills[k] = <<v>>])
    /\ ui' = UiIdle
    /\ call' = "type"
    /\ arg' = k
    /\ ret' = ""
    /\ UNCHANGED <<tpl, today>>

TypedSkills == {"", "Welding, Rigging"}

\* the page with the pasted text, the skills text areas and Generate
NextSkills ==
    \/ \E t \in PastedTexts : Paste(t)
    \/ \E k \in SkillAreas : \E v \in TypedSkills : TypeSkills(k, v)
    \/ ClickGenerate

SpecSkills == InitWorkshop /\ [][NextSkills]_vars

-----------------------------------------------------------------------------
(* clean_bullet applied to a line, and again to its result as Job.trim does
   when the resume is built *)

MaxBulletPieces == 3
LongBullet == "a b c d e f g h i j k l m n o p q r s t u v w x. "
BulletPieces == {"responsible for ", "Tasked with: ", "x", ". ", "- ", "\t"}

\* the lines cleaned: those made of the pieces, and a line of 24 words
\* followed by one piece
BulletTexts ==
    Strs(BulletPieces, MaxBulletPieces) \cup {LongBullet \o p : p \in BulletPieces}

CallCleanBullet ==
    /\ call = ""
    /\ call' = "clean_bullet"
    /\ ret' = clean_bullet(arg)
    /\ UNCHANGED <<ss, tpl, wd, ui, today, arg>>

\* bs = [clean_bullet(b) for b in self.bullets if str(b).strip()]
TrimBullet ==
    /\ call = "clean_bullet"
    /\ Strip(ret) # ""
    /\ call' = "trim"
    /\ arg' = ret
    /\ ret' = clean_bullet(ret)
    /\ UNCHANGED <<ss, tpl, wd, ui, today>>

InitBullet == PageInit /\ NoCall /\ arg \in BulletTexts
NextBullet == CallCleanBullet \/ TrimBullet
SpecBullet == InitBullet /\ [][NextBullet]_vars

-----------------------------------------------------------------------------
(* clean_phone applied to a string *)

CallCleanPhone ==
    /\ call = ""
    /\ call' = "clean_phone"
    /\ ret' = clean_phone(arg)
    /\ UNCHANGED <<ss, tpl, wd, ui, today, arg>>

InitPhone == PageInit /\ NoCall /\ arg \in Strs(PhonePieces, MaxPhonePieces)
NextPhone == CallCleanPhone
SpecPhone == InitPhone /\ [][NextPhone]_vars

(* clean_email applied to a string *)

CallCleanEmail ==
    /\ call = ""
    /\ call' = "clean_email"
    /\ ret' = clean_email(arg)
    /\ UNCHANGED <<ss, tpl, wd, ui, today, arg>>

InitEmail == PageInit /\ NoCall /\ arg \in Strs(EmailPieces, MaxEmailPieces)
NextEmail == CallCleanEmail
SpecEmail == InitEmail /\ [][NextEmail]_vars

(* parse_header applied to a text *)

CallParseHeader ==
    /\ call = ""
    /\ call' = "parse_header"
    /\ ret' = parse_header(arg)
    /\ UNCHANGED <<ss, tpl, wd, ui, today, arg>>

InitHeader == PageInit /\ NoCall /\ arg \in HeaderTexts
NextHeader == CallParseHeader
SpecHeader == InitHeader /\ [][NextHeader]_vars

(* strip_banned applied to a string *)

CallStripBanned ==
    /\ call = ""
    /\ call' = "strip_banned"
    /\ ret' = strip_banned(arg)
    /\ UNCHANGED <<ss, tpl, wd, ui, today, arg>>

InitBanned == PageInit /\ NoCall /\ arg \in Strs(BannedPieces, MaxBannedPieces)
NextBanned == CallStripBanned
SpecBanned == InitBanned /\ [][NextBanned]_vars

(* build_resume_context applied to a form *)

SummaryForms ==
    [Name            : {"ana lee", "Bo  Diaz"},
     City            : {"seattle"},
     State           : {"wa"},
     Phone           : {"206 555 1234"},
     Email           : {"Ana@Example.com"},
     Objective_Final : {"", "  ", "Join a crew", "Join a union crew",
                        "inside union wire work", LongObjective},
     Other_Work      : {"", "mowing  lawns", "Union hall janitor"},
     Volunteer       : {"", "Food bank", "IBEW food drive"}]

ManySkills ==
    "teamwork, Teamwork, critical-thinking, critical thinking, welding, rigging; framing, "
        \o "drywall, roofing, paving, hauling, grading, surveying, scaffolding, flagging"
ManyCerts ==
    "OSHA-10, Forklift, Flagger, CPR,  First   Aid, TWIC; NCCER, PPE, Aerial Lift, HAZWOPER"
ManyDuties == "* ran saws.\n\n- Responsible for cleanup\nset forms\n  \npoured slabs\ndrove truck"

\* forms that fill the lists of the resume
ListForms ==
    [Name                  : {"ana lee"},
     Phone                 : {"206 555 1234"},
     Objective_Final       : {"Join a crew"},
     Skills_Transferable   : {"", "math", ManySkills},
     Skills_JobSpecific    : {"", "MATH, Blueprints"},
     Skills_SelfManagement : {"tools," \o Bullet \o " safety"},
     Certifications        : {"cpr", ManyCerts},
     Job1_Duties           : {"", "dug  trench", ManyDuties},
     Job2_Dates            : {"2019 - 2021"},
     Job2_Title            : {"", "foreman"},
     Job3_Company          : {"", "acme co"},
     Edu1_School           : {"", "lincoln high"},
     Edu2_Dates            : {" ", "2001"}]

\* the form the click assembles, the fields a set leaves out being empty
Forms == {FormWith(f) : f \in SummaryForms \cup ListForms}

CallBuildResumeContext ==
    /\ call = ""
    /\ call' = "build_resume_context"
    /\ ret' = build_resume_context(arg.form, arg.trade_label)
    /\ UNCHANGED <<ss, tpl, wd, ui, today, arg>>

InitResume == PageInit /\ NoCall /\ arg \in [form : Forms, trade_label : Trades]
NextResume == CallBuildResumeContext
SpecResume == InitResume /\ [][NextResume]_vars

(* build_cover_letter_docx applied to a data map *)

CallBuildCoverLetter ==
    /\ call = ""
    /\ call' = "build_cover_letter_docx"
    /\ ret' = build_cover_letter_docx(arg)
    /\ UNCHANGED <<ss, tpl, wd, ui, today, arg>>

InitLetter == PageInit /\ NoCall /\ arg \in LetterData
NextLetter == CallBuildCoverLetter
SpecLetter == InitLetter /\ [][NextLetter]_vars

(* normalize_skill_label applied to a string *)

MaxSkillPieces == 3
SkillPieces == {" ", "\t", "a", "B", "-", "3", "'", BoldA, "math", "Safety"}

SkillArgs ==
    Range(SKILL_CANON)
        \cup {p[1] : p \in Range(_SKILL_SYNONYMS)}
        \cup {p[2] : p \in Range(_SKILL_SYNONYMS)}
        \cup Strs(SkillPieces, MaxSkillPieces)

CallNormalizeSkillLabel ==
    /\ call = ""
    /\ call' = "normalize_skill_label"
    /\ ret' = normalize_skill_label(arg)
    /\ UNCHANGED <<ss, tpl, wd, ui, today, arg>>

InitSkill == PageInit /\ NoCall /\ arg \in SkillArgs
NextSkill == CallNormalizeSkillLabel
SpecSkill == InitSkill /\ [][NextSkill]_vars

(* parse_certs applied to a text *)

MaxCertPieces == 3
CertPieces ==
    {"OSHA-10", "osha-10 ", "Osha", "-10", "cpr", "CPR", "s", " ", "\n",
     "Forklift", "first", "aid", "PPE"}

CallParseCerts ==
    /\ call = ""
    /\ call' = "parse_certs"
    /\ ret' = parse_certs(arg)
    /\ UNCHANGED <<ss, tpl, wd, ui, today, arg>>

InitCerts == PageInit /\ NoCall /\ arg \in Strs(CertPieces, MaxCertPieces)
NextCerts == CallParseCerts
SpecCerts == InitCerts /\ [][NextCerts]_vars

(* the four parsers applied to a text *)

MaxParserPieces == 3
ParserPieces ==
    {"hello world", "\n", " ", "John Doe", "jo@x.org", "(206) 555-1234",
     "Seattle, WA", "cpr", "college", "* dug", "2019 - 2021"}

CallParseJobs ==
    /\ call = ""
    /\ call' = "parse_jobs"
    /\ ret' = parse_jobs(arg)
    /\ UNCHANGED <<ss, tpl, wd, ui, today, arg>>

CallParseEducation ==
    /\ call = ""
    /\ call' = "parse_education"
    /\ ret' = parse_education(arg)
    /\ UNCHANGED <<ss, tpl, wd, ui, today, arg>>

InitParsers == PageInit /\ NoCall /\ arg \in Strs(ParserPieces, MaxParserPieces)
NextParsers ==
    \/ CallParseHeader
    \/ CallParseJobs
    \/ CallParseEducation
    \/ CallParseCerts
SpecParsers == InitParsers /\ [][NextParsers]_vars

(* mine_resume_skills applied to a text and the detected roles *)

MaxMinePieces == 3
ManyKeywords ==
    "blueprint schematic conduit layout rigging forklift ladder welding brazing lockout reliable pace communication"
MinePieces == {"Skills\n", "tools, ", "conduit", "Experience\n", "- Team; ", ManyKeywords}
MineRoles == {<<>>, <<" Warehouse lead ", "server">>}

CallMineResumeSkills ==
    /\ call = ""
    /\ call' = "mine_resume_skills"
    /\ ret' = mine_resume_skills(arg.full_text, arg.detected_roles)
    /\ UNCHANGED <<ss, tpl, wd, ui, today, arg>>

InitMine ==
    /\ PageInit /\ NoCall
    /\ arg \in [full_text : Strs(MinePieces, MaxMinePieces), detected_roles : MineRoles]
NextMine == CallMineResumeSkills
SpecMine == InitMine /\ [][NextMine]_vars

(* build_pathway_packet_docx applied to a list of sources and reflections *)

MaxSources == 2

\* a text of two lines, an empty one, a blank one, one with an empty line and
\* a final line break, and one that holds a control character
SourceFiles ==
    {[name |-> "notes.txt", text |-> "line one\n  line two "],
     [name |-> "scan.pdf", text |-> ""],
     [name |-> "blank.docx", text |-> " \n\t"],
     [name |-> "plan.txt", text |-> "first\n\nthird\r\n"],
     [name |-> "downloaded_file", text |-> "PK" \o Soh \o "\nbinary"]}

SourceLists == UNION {[1..n -> SourceFiles] : n \in 0..MaxSources}

ReflectionMaps ==
    {<<>>,
     <<[k |-> "10-second pitch", v |-> ""]>>,
     <<[k |-> "Objective (student final)", v |-> "Wire homes.\nLearn the code."],
       [k |-> "10-second pitch", v |-> "I show up."]>>,
     WorkshopReflections}

CallBuildPacket ==
    /\ call = ""
    /\ call' = "build_pathway_packet_docx"
    /\ ret' = build_pathway_packet_docx(arg.student, arg.trade_label, arg.app_type,
                                        arg.sources, arg.reflections)
    /\ UNCHANGED <<ss, tpl, wd, ui, today, arg>>

InitPacket ==
    /\ PageInit
    /\ NoCall
    /\ arg \in [student : {[name |-> "Ana Lee"]}, trade_label : {DefaultTrade},
                app_type : {"Apprenticeship"}, sources : SourceLists,
                reflections : ReflectionMaps]
NextPacket == CallBuildPacket
SpecPacket == InitPacket /\ [][NextPacket]_vars

-----------------------------------------------------------------------------
(* Properties of the Generate click *)

NameBlank == Strip(ss.Name) = ""
ContactBlank == Strip(ss.Phone) = "" /\ Strip(ss.Email) = ""

NothingGenerated == ui.built = NoDocs /\ ui.downloads = <<>> /\ ~ui.success

\* C1: after a click of Generate with Name blank after trimming, or Phone and
\* Email both blank after trimming, no resume, cover letter, packet or CSV is
\* built or offered for download, the resume was not rendered, and the page
\* shows one error message that holds every problem found.
C1_InvalidFormGeneratesNothing ==
    (call = "generate" /\ (NameBlank \/ ContactBlank)) =>
        /\ NothingGenerated
        /\ ui.renders = 0
        /\ Len(ui.errors) = 1
        /\ NameBlank <=> Found(Lit("Name is required."), ui.errors[1])
        /\ ContactBlank <=> Found(Lit("At least one contact method"), ui.errors[1])

\* C1 witness: a click with a blank name and blank contacts while a template
\* is there, answered by the one message that holds both problems.
C1_Witness ==
    /\ call = "generate"
    /\ ss.Name = "  " /\ ss.Phone = " " /\ ss.Email = "\t"
    /\ TplBytes(tpl) = "docx"
    /\ ui.errors = <<"Name is required. | At least one contact method (Phone or Email) is required.">>
    /\ NothingGenerated

\* C2: after a click of Generate that passes validation, when there are no
\* template bytes or the rendering raises, the page shows the failure as one
\* error message, the resume was rendered at most once and none is offered,
\* and no cover letter, packet, CSV or download is produced.
C2_TemplateFailureGeneratesNothing ==
    (/\ call = "generate"
     /\ ~NameBlank /\ ~ContactBlank
     /\ TplBytes(tpl) # "docx") =>
        /\ NothingGenerated
        /\ ui.renders <= 1
        /\ Len(ui.errors) = 1
        /\ IF TplBytes(tpl) = "" THEN ui.errors[1] = TemplateNotFound /\ ui.renders = 0
           ELSE Search(Lit("Resume template rendering failed: "), ui.errors[1]).b = 0

\* C2 witness: a valid form clicked with an uploaded file that is no docx,
\* answered by the rendering failure message alone.
C2_Witness ==
    /\ call = "generate"
    /\ ~NameBlank /\ ~ContactBlank
    /\ tpl = [file |-> "docx", upload |-> "junk"]
    /\ ui.errors = <<"Resume template rendering failed: File is not a zip file">>
    /\ ui.renders = 1
    /\ NothingGenerated

-----------------------------------------------------------------------------
(* Properties of parse_header *)

JohnDoeHeader ==
    [Name |-> "John Doe", Email |-> "john.doe@example.com", Phone |-> "(206) 555-1234",
     City |-> "Seattle", State |-> "WA"]

\* the non-blank lines of the text
NonBlankLines(text) == SelectSeq(SplitLines(text), LAMBDA l : Strip(l) # "")

\* the John Doe block makes the first non-blank lines of the text
StartsWithJohnDoe(text) ==
    LET nb == NonBlankLines(text)
    IN  Len(nb) >= Len(JohnDoeBlock) /\ SubSeq(nb, 1, Len(JohnDoeBlock)) = JohnDoeBlock

\* the number of blank lines before the first non-blank line of the text
LeadingBlankLines(text) ==
    LET ls == SplitLines(text)
    IN  Cardinality({i \in 1..Len(ls) : \A j \in 1..i : Strip(ls[j]) = ""})

\* C6 as stated: parse_header returns the John Doe header for the four-line
\* block, and for every longer text whose first non-blank lines are the block.
C6_Original ==
    (call = "parse_header" /\ StartsWithJohnDoe(arg)) => ret = JohnDoeHeader

\* C6 as amended: parse_header returns the John Doe header for the four-line
\* block, and for every longer text whose first non-blank lines are the block
\* when fewer than 50 blank lines precede it (the name line is one of the
\* first 50 lines of the text).
C6_JohnDoeHeaderParsed ==
    (call = "parse_header" /\ StartsWithJohnDoe(arg) /\ LeadingBlankLines(arg) < TOP_LINES)
        => ret = JohnDoeHeader

\* C6 witness: the block as the last of the first 50 lines of a longer text,
\* parsed to the John Doe header.
C6_Witness ==
    /\ call = "parse_header"
    /\ StartsWithJohnDoe(arg)
    /\ LeadingBlankLines(arg) = TOP_LINES - 1
    /\ Len(NonBlankLines(arg)) > Len(JohnDoeBlock)
    /\ ret = JohnDoeHeader

\* the first TOP_LINES lines of the text, each with its outer whitespace
\* removed
ScannedLines(text) ==
    LET ls == SplitLines(text)
    IN  [i \in 1..(IF Len(ls) < TOP_LINES THEN Len(ls) ELSE TOP_LINES) |-> Strip(ls[i])]

\* a scanned line with its separator runs written "|" and its outer "|" and
\* whitespace removed
SeparatorsBarred(line) == Strip(StripChars(Strip(Sub(NAME_SEPARATORS, "|", line)), {"|"}))

\* the least element of a non-empty set of numbers
Least(S) == CHOOSE i \in S : \A j \in S : i <= j

\* C7 as stated: Name is the first scanned line that is no section header,
\* holds no email or phone match and has 2 to 4 tokens, none with a digit and
\* at least two starting with an uppercase letter; Name is empty when no
\* scanned line is such a line.
C7_Original ==
    call = "parse_header" =>
        LET T  == ScannedLines(arg)
            ok == {i \in 1..Len(T) : IsNameCandidate(T[i])}
        IN  ret.Name = (IF ok # {} THEN T[Least(ok)] ELSE "")

\* C7 as amended: Name is cap_first of the first of the first 50 lines that,
\* with its separator runs written "|", is no section header, holds no email
\* or phone match and has 2 to 4 tokens, none with a digit and at least two
\* starting with an uppercase letter; when there is no such line, Name is
\* cap_first of the first of the first 15 lines that is not blank, holds no
\* email or phone match and none of the words objective, summary, skills,
\* experience, education, holds a letter and has at most 4 tokens; Name is
\* empty when there is no such line either.
C7_NameIsFirstCandidate ==
    call = "parse_header" =>
        LET T  == ScannedLines(arg)
            B  == [i \in 1..Len(T) |-> SeparatorsBarred(T[i])]
            ok == {i \in 1..Len(B) : IsNameCandidate(B[i])}
            fb == {i \in 1..Len(T) : i <= FALLBACK_LINES /\ IsFallbackName(T[i])}
        IN  ret.Name = (IF ok # {} THEN cap_first(B[Least(ok)])
                        ELSE IF fb # {} THEN cap_first(T[Least(fb)])
                        ELSE "")

\* C7 witness: of two candidate lines after a blank line the first became
\* the Name.
C7_Witness ==
    /\ call = "parse_header"
    /\ arg = "\nana  Lee Ray\nJohn Doe"
    /\ ret.Name = "Ana Lee Ray"

-----------------------------------------------------------------------------
(* Properties of the denylist scrub *)

\* C3: the result of strip_banned contains no match of any denylist pattern,
\* whatever the input: every denylisted term is removed and the removal
\* leaves or creates none.
C3_StripBannedLeavesNoBannedText ==
    call = "strip_banned" => ~Found(BANNED_RE, ret)

\* C4: the summary of the context build_resume_context returns contains no
\* match of any denylist pattern, whatever the form.
C4_SummaryHasNoBannedText ==
    call = "build_resume_context" => ~Found(BANNED_RE, ret.summary)

\* C5: no paragraph of the cover letter build_cover_letter_docx builds
\* contains a match of any denylist pattern, whatever the data map.
C5_LetterHasNoBannedText ==
    call = "build_cover_letter_docx" =>
        \A j \in 1..Len(ret) : ~Found(BANNED_RE, ret[j])

-----------------------------------------------------------------------------
(* Properties of clean_phone and clean_email *)

\* the characters of s that are in S, in order
RECURSIVE Keep(_, _)
Keep(s, S) ==
    IF s = "" THEN ""
    ELSE (IF At(s, 1) \in S THEN At(s, 1) ELSE "") \o Keep(SubSeq(s, 2, Len(s)), S)

\* the ten digits d written (ddd) ddd-dddd
UsFormat(d) ==
    "(" \o At(d, 1) \o At(d, 2) \o At(d, 3) \o ") " \o At(d, 4) \o At(d, 5) \o At(d, 6)
        \o "-" \o At(d, 7) \o At(d, 8) \o At(d, 9) \o At(d, 10)

\* the ten digits a US number has, or "" when the digits of s are no US number
UsDigits(s) ==
    LET d == Keep(s, DigitSet)
    IN  IF Len(d) = 10 THEN d
        ELSE IF Len(d) = 11 /\ At(d, 1) = "1" THEN SubSeq(d, 2, 11)
        ELSE ""

\* C8: clean_phone is idempotent: applying it to its own result returns that
\* result unchanged, for every input string.
C8_CleanPhoneIdempotent ==
    call = "clean_phone" => clean_phone(ret) = ret

\* C8 witness: an input with a country code and stray whitespace that
\* clean_phone rewrote.
C8_Witness ==
    /\ call = "clean_phone"
    /\ ret # arg
    /\ Len(Keep(arg, DigitSet)) = 11
    /\ ret = "(206) 555-1234"

\* C9 as stated: ten digits (or eleven with a leading 1, dropped) are written
\* (ddd) ddd-dddd; any other input comes back with only its leading and
\* trailing whitespace removed and otherwise unmodified.
C9_Original ==
    call = "clean_phone" =>
        ret = (IF UsDigits(arg) # "" THEN UsFormat(UsDigits(arg)) ELSE Strip(arg))

\* C9 as amended: ten digits (or eleven with a leading 1, dropped) are written
\* (ddd) ddd-dddd; any other input comes back with its leading and trailing
\* whitespace removed and every inner run of whitespace replaced by one space.
C9_CleanPhoneResult ==
    call = "clean_phone" =>
        ret = (IF UsDigits(arg) # "" THEN UsFormat(UsDigits(arg))
               ELSE JoinWith(WordsOf(arg, ""), " "))

\* C9 witness: eleven digits that do not start with 1, with whitespace around
\* them, came back trimmed and not formatted.
C9_Witness ==
    /\ call = "clean_phone"
    /\ Len(Keep(arg, DigitSet)) = 11
    /\ At(Keep(arg, DigitSet), 1) # "1"
    /\ ret # arg
    /\ Keep(ret, DigitSet) = Keep(arg, DigitSet)

\* C10 as stated: the result of clean_email has no leading or trailing
\* whitespace and no uppercase letter, and clean_email applied to it returns
\* it unchanged.
C10_Original ==
    call = "clean_email" =>
        /\ ret = Strip(ret)
        /\ CharsOf(ret) \cap UpperLetters = {}
        /\ clean_email(ret) = ret

\* C10 as amended: the result of clean_email has no leading or trailing
\* whitespace and no letter that has a lowercase form other than itself (an
\* uppercase letter without a lowercase form is kept), and clean_email applied
\* to it returns it unchanged.
C10_CleanEmailLowerTrimmed ==
    call = "clean_email" =>
        /\ ret = "" \/ (At(ret, 1) \notin SpaceSet /\ At(ret, Len(ret)) \notin SpaceSet)
        /\ \A c \in CharsOf(ret) : ToLower(c) = c
        /\ clean_email(ret) = ret

\* C10 witness: an address with uppercase letters and whitespace around it
\* was lowercased and trimmed.
C10_Witness ==
    /\ call = "clean_email"
    /\ CharsOf(arg) \cap UpperSet # {}
    /\ At(arg, 1) \in SpaceSet
    /\ At(arg, Len(arg)) \in SpaceSet
    /\ ret = "az@"

-----------------------------------------------------------------------------
(* Properties of the skill labels *)

\* the call returned a label of the synonym table
FromSynonyms == SynonymOf(SkillKey(Strip(arg))) # ""

\* C11: normalize_skill_label returns a value for every input, the empty
\* string included, and leaves a canonical label as it is: called on a label
\* of SKILL_CANON it returns that label, and called on a label it returned
\* from the synonym table it returns that label again.
C11_CanonicalLabelsAreFixed ==
    call = "normalize_skill_label" =>
        /\ ret \in STRING
        /\ arg \in Range(SKILL_CANON) => ret = arg
        /\ FromSynonyms => normalize_skill_label(ret) = ret

-----------------------------------------------------------------------------
(* Properties of parse_certs *)

HasOsha10 == Contains(LowerStr(arg), "osha-10")

\* C12: for every text that contains 'OSHA-10' in any letter case, the list
\* parse_certs returns includes the label the OSHA keyword is mapped to,
\* which is 'OSHA-10' in this program.
C12_Osha10TextGivesOshaLabel ==
    call = "parse_certs" /\ HasOsha10 => "OSHA-10" \in Range(ret)

\* a text with 'OSHA-10' in mixed case was parsed
C12_Witness ==
    /\ call = "parse_certs"
    /\ HasOsha10
    /\ ~Contains(arg, "osha-10") /\ ~Contains(arg, "OSHA-10")
    /\ "OSHA-10" \in Range(ret)

\* C13: for every text, parse_certs returns a strictly ascending list whose
\* labels are exactly the labels of the dictionary keywords that occur in
\* the text ignoring letter case, one label for each matched keyword: no
\* certification is listed twice under two spellings.
C13_CertsAreTheSortedKeywordLabels ==
    call = "parse_certs" =>
        /\ \A i, j \in 1..Len(ret) : i < j => StrLess(ret[i], ret[j])
        /\ Range(ret) = FoundByKeyword(LowerStr(arg))
        /\ \A i, j \in 1..Len(ret) : i # j => LowerStr(ret[i]) # LowerStr(ret[j])

-----------------------------------------------------------------------------
(* Properties of the parsers on texts without a match *)

EmptyHeader == [Name |-> "", Phone |-> "", Email |-> "", City |-> "", State |-> ""]

NoCertKeyword == \A j \in 1..Len(CERT_KEYWORDS) : ~Contains(LowerStr(arg), CERT_KEYWORDS[j])

\* the text holds no contact, job, education or certification pattern: no
\* line that passes for a name, no email, phone, city and state, date range,
\* head line separator, bullet line, school word or certification keyword
NoPattern ==
    /\ Candidates(Sub(NAME_SEPARATORS, "|", TopBlock(SplitLines(arg)))) = <<>>
    /\ ~Found(EMAIL_RE, arg) /\ ~Found(PHONE_RE, arg) /\ ~Found(CITY_STATE_RE, arg)
    /\ ~Found(DATE_RANGE_RE, arg) /\ ~Found(HEAD_SEPARATOR, arg)
    /\ \A j \in 1..Len(SplitLines(arg)) : Ends(BULLET_MARK, Strip(SplitLines(arg)[j]), 0) = <<>>
    /\ ~Found(EDU_WORDS, arg)
    /\ NoCertKeyword

\* C14 as stated: for the empty text and for a text with no contact, job,
\* education or certification pattern, parse_header returns the empty string
\* for all five fields and the three list parsers return empty lists.
C14_Original ==
    NoPattern =>
        /\ call = "parse_header" => ret = EmptyHeader
        /\ call \in {"parse_jobs", "parse_education", "parse_certs"} => ret = <<>>

\* C14: every parser returns a value for every text.  For a text of
\* whitespace only, the empty text included, parse_header returns the empty
\* string for all five fields and parse_jobs returns no job; Phone, Email and
\* City with State are empty whenever the text has no match of their
\* pattern; parse_education returns no school for a text without a school
\* word and parse_certs no label for a text without a keyword.
C14_ParsersDegradeToEmpty ==
    /\ call = "parse_header" =>
        /\ DOMAIN ret = DOMAIN EmptyHeader
        /\ Strip(arg) = "" => ret = EmptyHeader
        /\ ~Found(PHONE_RE, arg) => ret.Phone = ""
        /\ ~Found(EMAIL_RE, arg) => ret.Email = ""
        /\ ~Found(CITY_STATE_RE, arg) => ret.City = "" /\ ret.State = ""
    /\ call = "parse_jobs" =>
        /\ Len(ret) <= MAX_JOBS
        /\ Strip(arg) = "" => ret = <<>>
    /\ call = "parse_education" =>
        /\ Len(ret) <= MAX_SCHOOLS
        /\ ~Found(EDU_WORDS, arg) => ret = <<>>
    /\ call = "parse_certs" =>
        /\ Len(ret) <= Len(CERT_KEYWORDS) + 1
        /\ NoCertKeyword => ret = <<>>

\* a text of blank lines went through parse_education and through parse_jobs
C14_Witness ==
    /\ arg # "" /\ Strip(arg) = "" /\ Len(SplitLines(arg)) >= 2
    /\ call \in {"parse_education", "parse_jobs"}
    /\ ret = <<>>

-----------------------------------------------------------------------------
(* Properties of the lists of the resume context *)

\* no two elements of the list are equal ignoring letter case
NoCaseTwins(labs) ==
    \A i, j \in 1..Len(labs) : i # j => LowerStr(labs[i]) # LowerStr(labs[j])

\* C15: for every form, the context of build_resume_context has at most 12
\* skills, no two of them equal ignoring letter case, at most 8
\* certifications, at most 3 jobs of at most 4 bullets each, at most 2
\* schools, and a summary of at most 450 characters.
C15_ContextListsAreCapped ==
    call = "build_resume_context" =>
        /\ Len(ret.skills) <= MAX_SKILLS
        /\ NoCaseTwins(ret.skills)
        /\ Len(ret.certs) <= MAX_CERTS
        /\ Len(ret.jobs) <= MAX_JOBS
        /\ \A j \in 1..Len(ret.jobs) : Len(ret.jobs[j].bullets) <= MAX_BULLETS_PER_JOB
        /\ Len(ret.schools) <= MAX_SCHOOLS
        /\ Len(ret.summary) <= MAX_SUMMARY_CHARS

\* a form with more skills (two of them twins), certifications and duties
\* than the caps was rendered, and the three lists were cut at the caps
C15_Witness ==
    /\ call = "build_resume_context"
    /\ Len(SkillsAll(arg.form)) > MAX_SKILLS
    /\ ~NoCaseTwins(SkillLabels(SkillsAll(arg.form)))
    /\ Len(split_list(arg.form.Certifications)) > MAX_CERTS
    /\ Len(NonBlank(SplitLines(arg.form.Job1_Duties))) > MAX_BULLETS_PER_JOB
    /\ Len(ret.skills) = MAX_SKILLS
    /\ Len(ret.certs) = MAX_CERTS
    /\ Len(ret.jobs) = MAX_JOBS
    /\ Len(ret.jobs[1].bullets) = MAX_BULLETS_PER_JOB
    /\ Len(ret.schools) = MAX_SCHOOLS

-----------------------------------------------------------------------------
(* Properties of mine_resume_skills *)

\* C16: for every text and every list of detected roles, each of the three
\* lists of mine_resume_skills has at most 12 labels and holds no two labels
\* that are equal ignoring letter case.
C16_MinedListsCappedWithoutTwins ==
    call = "mine_resume_skills" =>
        \A k \in {"Transferable", "Job-Specific", "Self-Management"} :
            Len(ret[k]) <= MAX_SKILLS /\ NoCaseTwins(ret[k])

-----------------------------------------------------------------------------
(* Properties of build_pathway_packet_docx *)

\* the heading and the meta line of the packet, then the reflections block
PacketHead(a) ==
    <<"Instructor Pathway Packet",
      "Student: " \o a.student.name \o " | Target: " \o a.trade_label
          \o " | Application type: " \o a.app_type,
      "", "Workshop Reflections">>

RECURSIVE ReflectionsBlock(_)
ReflectionsBlock(rs) ==
    IF rs = <<>> THEN <<>>
    ELSE <<Head(rs).k \o ":">> \o SplitLines(Head(rs).v) \o ReflectionsBlock(Tail(rs))

\* one page break, one heading with the file's name, and the text line by
\* line, or the placeholder when the text is blank
RECURSIVE SourceSections(_)
SourceSections(fs) ==
    IF fs = <<>> THEN <<>>
    ELSE <<"<page break>", Head(fs).name>>
         \o (IF Strip(Head(fs).text) = ""
             THEN <<"[Text could not be extracted from this file.]">>
             ELSE SplitLines(Head(fs).text))
         \o SourceSections(Tail(fs))

\* C17: for every list of sources and every reflections map,
\* build_pathway_packet_docx completes without raising and emits, in order,
\* the heading and meta line, the reflections block, and for each source in
\* input order one page break, one heading with the file's name and the
\* file's text line by line (or the placeholder when the text is blank);
\* with no source the packet is the heading and the reflections only.
C17_PacketIsBuiltForEverySourceList ==
    call = "build_pathway_packet_docx" =>
        /\ ~ret.raised
        /\ ret.doc = PacketHead(arg) \o ReflectionsBlock(arg.reflections)
                         \o SourceSections(arg.sources)

-----------------------------------------------------------------------------
(* Properties of the intake CSV *)

\* csv.reader in the excel dialect.  A field that starts with a quote ends at
\* its closing quote: the first quote after an even number of quotes of the
\* field that is not followed by a quote
ClosingQuote(t, b) ==
    Leftmost({j \in (b + 1)..Len(t) :
                 /\ At(t, j) = "\""
                 /\ Cardinality({k \in (b + 1)..j : At(t, k) = "\""}) % 2 = 1
                 /\ (j = Len(t) \/ At(t, j + 1) # "\"")})

\* where the text of the field that starts at b ends: before the closing
\* quote, or before the separator
FieldLast(t, b) ==
    IF b <= Len(t) /\ At(t, b) = "\""
    THEN (IF ClosingQuote(t, b) = -1 THEN Len(t) ELSE ClosingQuote(t, b) - 1)
    ELSE Leftmost({j \in (b - 1)..Len(t) :
                      j = Len(t) \/ At(t, j + 1) \in {",", "\r", "\n"}})

\* the position of the separator after the field that starts at b, past the
\* end of the text when there is none
FieldStop(t, b) ==
    IF b <= Len(t) /\ At(t, b) = "\""
    THEN Leftmost({j \in (FieldLast(t, b) + 2)..(Len(t) + 1) :
                      j = Len(t) + 1 \/ At(t, j) \in {",", "\r", "\n"}})
    ELSE FieldLast(t, b) + 1

FieldText(t, b) ==
    IF b <= Len(t) /\ At(t, b) = "\""
    THEN Sub(Lit("\"\""), "\"", SubSeq(t, b + 1, FieldLast(t, b)))
         \o SubSeq(t, FieldLast(t, b) + 2, FieldStop(t, b) - 1)
    ELSE SubSeq(t, b, FieldLast(t, b))

\* the position after the line break at position stop
AfterBreak(t, stop) ==
    IF At(t, stop) = "\r" /\ stop < Len(t) /\ At(t, stop + 1) = "\n" THEN stop + 2
    ELSE stop + 1

\* where the reader goes on after the separator at position stop; past the
\* end of the text by two when nothing is left to read
AfterStop(t, stop) ==
    IF stop > Len(t) THEN Len(t) + 2
    ELSE IF At(t, stop) = "," THEN stop + 1
    ELSE IF AfterBreak(t, stop) > Len(t) THEN Len(t) + 2
    ELSE AfterBreak(t, stop)

NextStart(t, b) == IF b > Len(t) + 1 THEN b ELSE AfterStop(t, FieldStop(t, b))

\* the positions where the first n fields from position b start
RECURSIVE StartsFrom(_, _, _)
StartsThen(t, left, m) == left \o StartsFrom(t, NextStart(t, left[Len(left)]), m)

StartsFrom(t, b, n) ==
    IF n <= 1 THEN <<b>>
    ELSE StartsThen(t, StartsFrom(t, b, n \div 2), n - (n \div 2))

\* a text has at most one field more than it has separators
FieldStarts(t) ==
    SelectSeq(StartsFrom(t, 1, Cardinality({j \in 1..Len(t) : At(t, j) \in {",", "\r", "\n"}}) + 1),
              LAMBDA b : b <= Len(t) + 1)

\* the field that starts at b is the last one of its record
EndsRecord(t, b) == FieldStop(t, b) > Len(t) \/ At(t, FieldStop(t, b)) # ","

\* the number of the first field of the record that ends with field i, ends
\* telling of each field whether it is the last one of its record
RowFirst(ends, i) ==
    IF \A h \in 1..(i - 1) : ~ends[h] THEN 1
    ELSE 1 + CHOOSE h \in 1..(i - 1) : ends[h] /\ \A g \in (h + 1)..(i - 1) : ~ends[g]

\* an empty line is a record of no field
FieldsFrom(texts, blanks, first, last) ==
    IF first = last /\ blanks[first] THEN <<>> ELSE SubSeq(texts, first, last)

NumbersTo(n) == [i \in 1..n |-> i]

RowsOf(texts, blanks, ends, lasts) ==
    Listed([r \in 1..Len(lasts) |->
               FieldsFrom(texts, blanks, RowFirst(ends, lasts[r]), lasts[r])])

RowsWith(texts, blanks, ends) ==
    RowsOf(texts, blanks, ends, SelectSeq(NumbersTo(Len(ends)), LAMBDA i : ends[i]))

RecordsOf(t, starts) ==
    RowsWith(Listed([i \in 1..Len(starts) |-> FieldText(t, starts[i])]),
             Listed([i \in 1..Len(starts) |->
                        starts[i] <= Len(t) /\ At(t, starts[i]) \in {"\r", "\n"}]),
             Listed([i \in 1..Len(starts) |-> EndsRecord(t, starts[i])]))

\* list(csv.reader(io.StringIO(t, newline="")))
ReadCsv(t) == IF t = "" THEN <<>> ELSE RecordsOf(t, Listed(FieldStarts(t)))

\* the keys of the form whose value is the value the session holds
SessionColumns ==
    {csv_fields[j] : j \in 1..Len(csv_fields)}
    \ {"Objective_Final", "Skills_Transferable", "Certifications"}

\* rows are the column names and the values of the form, column by column
HoldsTheForm(rows, form, s) ==
    /\ Len(rows) = 2
    /\ Len(csv_fields) = 33
    /\ rows[1] = csv_fields
    /\ Len(rows[2]) = Len(rows[1])
    /\ \A i \in 1..Len(csv_fields) : rows[2][i] = GetStr(form, csv_fields[i])
    /\ \A i \in 1..Len(csv_fields) :
           csv_fields[i] \in SessionColumns => rows[2][i] = GetStr(s, csv_fields[i])

\* C19: every successful Generate click produces a CSV with exactly two
\* records: the 33 column names in the fixed order, then one record with as
\* many fields whose i-th value is the raw form value of the i-th column.
C19_CsvHoldsTheFormOfTheClick ==
    (call = "generate" /\ ui.success) =>
        HoldsTheForm(ReadCsv(ui.built.csv), FormOf(ss, wd), ss)

\* a successful click on a session whose duties hold a comma, a quote
\* character and a line break, read back from the CSV as they are
C19_Witness ==
    /\ call = "generate"
    /\ ui.success
    /\ ss.Job1_Duties = "said \"go\", left\ndug trench"
    /\ ReadCsv(ui.built.csv)[2][15] = ss.Job1_Duties

-----------------------------------------------------------------------------
(* Properties of the role library *)

\* the bullets the library suggests
LibraryBullets == UNION {Range(role_library[n].bullets) : n \in 1..Len(role_library)}

\* the lines of the duties of job idx
DutyLines(s, idx) == Range(SplitLines(GetStr(s, JobKey(idx, "Duties"))))

\* a step that puts the library bullet b among the duties of job idx
Enters(b, idx) == b \notin DutyLines(ss, idx) /\ b \in DutyLines(ss', idx)

BulletEntersOnlyByInsert ==
    \A idx \in 1..MAX_JOBS : \A b \in LibraryBullets :
        Enters(b, idx) =>
            /\ call' = "insert"
            /\ b \in Range(BulletsOnly(chosen(wd)))
            /\ wd.target = "Job " \o At(DigitAlphabet, idx + 1)

\* C20: over every sequence of reruns, autofills, Insert clicks and Generate
\* clicks, a bullet of the role library becomes a line of a job's duties only
\* in an Insert click, only when its box is checked at the click, and only in
\* the job the radio button selects.
C20_BulletsEnterOnlyByInsert == [][BulletEntersOnlyByInsert]_vars

\* the checked bullet of the Server role, inserted into job 2 after a resume
\* was pasted and its fields were filled in
C20_Witness ==
    /\ call = "insert"
    /\ wd.paste = ResumeText
    /\ wd.target = "Job 2"
    /\ "Handled cash counts and hand-offs accurately" \in DutyLines(ss, 2)
    /\ "Handled cash counts and hand-offs accurately" \notin DutyLines(ss, 1)

-----------------------------------------------------------------------------
(* Properties of the document builders *)

\* a successful click of Generate on a page that shows the documents of the
\* successful click before it (the step of midnight is no click)
ClickedAgain ==
    /\ call = "generate" /\ ui.success
    /\ call' = "generate" /\ ui'.success
    /\ today' = today

\* the arguments of the three builders at a click
BuilderArguments(s, w, t) ==
    <<TplBytes(t), build_resume_context(FormOf(s, w), DefaultTrade), CoverLetterData(s),
      s.Name, ReflectionsOf(s, w)>>

SameArguments == BuilderArguments(ss', wd', tpl') = BuilderArguments(ss, wd, tpl)

\* the letters a and b are the same but for one paragraph, which holds a
\* date in both and the date d in b
SameButTheDate(a, b, d) ==
    /\ Len(a) = Len(b)
    /\ \E n \in 1..Len(b) :
           /\ b[n] = d
           /\ a[n] \in Range(Days)
           /\ \A j \in 1..Len(b) : j # n => a[j] = b[j]

\* C21 as stated: two clicks with the same arguments build the same three
\* documents, whatever else differs between them.
C21_Original ==
    [][(ClickedAgain /\ SameArguments) =>
           /\ ui'.built.resume = ui.built.resume
           /\ ui'.built.cover = ui.built.cover
           /\ ui'.built.packet = ui.built.packet]_vars

BuildersOncePerClick ==
    (call = "generate") =>
        /\ ui.success => (ui.renders = 1 /\ ui.letters = 1 /\ ui.packets = 1)
        /\ ~ui.success => (ui.renders <= 1 /\ ui.letters = 0 /\ ui.packets = 0)

SameDocumentsButTheDate ==
    (ClickedAgain /\ SameArguments) =>
        /\ ui'.built.resume = ui.built.resume
        /\ ui'.built.packet = ui.built.packet
        /\ SameButTheDate(ui.built.cover, ui'.built.cover, today')

\* C21: the resume and the packet of two clicks with the same arguments are
\* the same, and the cover letters are the same but for the paragraph that
\* holds the date of the click; a successful click calls each builder once,
\* a click that fails calls at most render_docx_with_template.
C21_BuildersDependOnArgumentsAndDate ==
    [][SameDocumentsButTheDate]_vars /\ []BuildersOncePerClick

\* a successful click on the second day: the letter holds its date
C21_Witness ==
    /\ call = "generate"
    /\ ui.success
    /\ today = Days[2]
    /\ ui.built.cover[5] = Days[2]
    /\ ss.City = "seattle"

-----------------------------------------------------------------------------
(* Properties of autofill *)

\* the keys of the session whose value the step changes
ChangedKeys == {k \in DOMAIN ss' : k \notin DOMAIN ss \/ ss'[k] # ss[k]}

\* the key the user typed into in the step, if any
TypedInStep == IF call' = "type" THEN {arg'} ELSE {}

\* every run leaves a page with text autofilled
AutofilledWhenThereIsText == combined_text(wd) # "" => ss.autofilled_once

AutofilledOnceStays == ss.autofilled_once => ss'.autofilled_once

\* after the automatic autofill, a run that is no click of the Auto-Fill
\* button writes nothing but what the user typed
NoSecondAutomaticAutofill ==
    (ss.autofilled_once /\ call' # "autofill") => ChangedKeys \subseteq TypedInStep

\* C22: the automatic autofill runs in the first run whose combined text is
\* not empty and sets autofilled_once, which stays true; no later run fills
\* the session from the text, whatever the text then is, but a click of the
\* Auto-Fill button.
C22_AutomaticAutofillRunsOnce ==
    /\ []AutofilledWhenThereIsText
    /\ [][AutofilledOnceStays]_vars
    /\ [][NoSecondAutomaticAutofill]_vars

\* the resume pasted after the notes were autofilled: its fields are not
\* filled in, the button not clicked
C22_Witness ==
    /\ wd.paste = ResumeText
    /\ ss.autofilled_once
    /\ call = "rerun"
    /\ ss.Email = ""
    /\ ss.Job1_Title = "See notes"
    /\ ss.Edu1_School = ""
    /\ Len(ss.autofilled_jobs) = 1
    /\ ss.autofilled_jobs[1].role = "See notes"

\* the keys autofill_from_text hands to set_if_empty
AutofillKeys ==
    (WorkshopKeys \ {"Pitch"})
    \cup {"Certifications", "Skills_Transferable", "Skills_JobSpecific", "Skills_SelfManagement"}

NonBlankIn(s, k) == k \in DOMAIN s /\ Strip(s[k]) # ""

\* set_if_empty(key, val) on the session of the state, for every key
SetIfEmptyContract ==
    \A k \in AutofillKeys : \A val \in {"", "filled"} :
        IF NonBlankIn(ss, k) THEN set_if_empty(ss, k, val) = ss
        ELSE /\ set_if_empty(ss, k, val)[k] = val
             /\ \A h \in DOMAIN ss \ {k} : set_if_empty(ss, k, val)[h] = ss[h]

\* autofill_from_text on the session of the state, for every text: what is
\* not blank stays, and a second autofill changes nothing
AutofillContract ==
    \A n \in 1..Len(CombinedTexts) :
        /\ \A k \in AutofillKeys :
               NonBlankIn(ss, k) =>
                   autofill_from_text(ss, CombinedTexts[n], DefaultTrade)[k] = ss[k]
        /\ autofill_from_text(autofill_from_text(ss, CombinedTexts[n], DefaultTrade),
                              CombinedTexts[n], DefaultTrade)
           = autofill_from_text(ss, CombinedTexts[n], DefaultTrade)

\* no run changes a filled field the user did not type into
FilledFieldsStay ==
    \A k \in AutofillKeys : (NonBlankIn(ss, k) /\ k \notin TypedInStep) => ss'[k] = ss[k]

\* C23: set_if_empty leaves a non-blank session value as it is and sets any
\* other to val; no autofill, automatic or by the button, in any order and
\* with any text, changes a header, job, education, certification or skills
\* field that is not blank; autofill twice with a text is autofill once.
C23_AutofillKeepsFilledFields ==
    /\ [](SetIfEmptyContract /\ AutofillContract)
    /\ [][FilledFieldsStay]_vars

\* the button clicked on the resume with the email typed before and the
\* city left blank: the typed email stays, the city is filled in
C23_Witness ==
    /\ call = "autofill"
    /\ wd.paste = ResumeText
    /\ ss.Email = "Ana@Example.com"
    /\ ss.City = "Seattle"
    /\ ss.Job1_Company = "Acme"

-----------------------------------------------------------------------------
(* Properties of the Insert button *)

\* the bullets checked at the click, in the order of the page
CheckedBullets == BulletsOnly(chosen(wd))

\* the number of the job the radio button selects
TargetJob == CHOOSE idx \in 1..MAX_JOBS : wd.target = "Job " \o At(DigitAlphabet, idx + 1)

\* the non-blank lines of the duties of job idx
OwnLines(s, idx) == NonBlank(SplitLines(GetStr(s, JobKey(idx, "Duties"))))

\* the items of new that are not among cur, each once, in order
Fresh(cur, new) ==
    Chain([i \in 1..Len(new) |->
              IF new[i] \notin Range(cur) /\ \A j \in 1..(i - 1) : new[j] # new[i]
              THEN <<new[i]>> ELSE <<>>])

InsertStep == call' = "insert"

InsertWritesTheTarget ==
    (InsertStep /\ CheckedBullets # <<>>) =>
        /\ ss'[JobKey(TargetJob, "Duties")]
               = JoinWith(FirstN(OwnLines(ss, TargetJob)
                                 \o Fresh(OwnLines(ss, TargetJob), CheckedBullets),
                                 MAX_BULLETS_PER_JOB), "\n")
        /\ \A idx \in (1..MAX_JOBS) \ {TargetJob} :
               ss'[JobKey(idx, "Duties")] = ss[JobKey(idx, "Duties")]

InsertOfNothing == (InsertStep /\ CheckedBullets = <<>>) => ss' = ss

\* C24: a click of Insert with a checked bullet sets the duties of the
\* selected job to the first four of its non-blank lines followed by the
\* checked bullets that are not among them, in order and each once, and
\* leaves the duties of the other two jobs; a click with no checked bullet
\* leaves the session state as it is.
C24_InsertAppendsAndCuts == [][InsertWritesTheTarget /\ InsertOfNothing]_vars

\* two bullets inserted into the duties of three lines, one of them already
\* there: nothing is added twice, the lines are cut to four
C24_Witness ==
    /\ call = "insert"
    /\ wd.target = "Job 1"
    /\ wd.checked = InsertBoxes
    /\ ss.Job1_Duties =
           "Swept floors\nHandled cash counts and hand-offs accurately\nLocked up\n"
           \o "Communicated with customers and team under time pressure"
    /\ ss.Job2_Duties = "Swept floors"

\* the page reports an insert into the selected job
ReportsInsert ==
    /\ InsertStep
    /\ ret' = "Inserted " \o Numeral(Len(CheckedBullets)) \o " bullet(s) into " \o wd.target
              \o " and updated skills."

\* C28: after a click of Insert that reports success, every checked bullet
\* is a line of the duties of the selected job, and so is every non-blank
\* line the job had before the click.
C28_ReportedInsertHoldsEveryBullet ==
    [][ReportsInsert =>
           /\ Range(CheckedBullets) \subseteq DutyLines(ss', TargetJob)
           /\ Range(OwnLines(ss, TargetJob)) \subseteq DutyLines(ss', TargetJob)]_vars

-----------------------------------------------------------------------------
(* Properties of the job history library *)

RolesOf(library) == {library[n].role : n \in 1..Len(library)}

\* the upload gives no role: there is none, it is no .docx and no .txt, or
\* nothing is parsed from it
NothingParsed(upload_file) ==
    \/ ~upload_file.given
    \/ /\ ~HasSuffix(LowerStr(upload_file.name), ".txt")
       /\ ~(HasSuffix(LowerStr(upload_file.name), ".docx") /\ upload_file.opens)
    \/ ParsedLibrary(upload_file) = <<>>

LoadedLibrary ==
    /\ \A b \in 1..Len(BUILTIN_ROLE_BULLETS) :
           \E r \in RolesOf(ret) : LowerStr(r) = LowerStr(BUILTIN_ROLE_BULLETS[b].role)
    /\ \A n \in 1..Len(ParsedLibrary(arg)) :
           /\ ret[n] = ParsedLibrary(arg)[n]
           /\ \A h \in 1..Len(ret) : ret[h].role = ret[n].role => h = n
    /\ NothingParsed(arg) => ret = BUILTIN_ROLE_BULLETS

\* C25: for every upload the library has, for each built-in role, a key
\* equal to it ignoring letter case; every role parsed from the upload is
\* in it with the bullets parsed for it, once; with no upload, an upload
\* that does not open or is no .docx and no .txt, or one without a role, the
\* library is the built-in seeds.
C25_LibraryKeepsParsedRolesAndSeeds ==
    (call = "load_job_history_library") => LoadedLibrary

\* a text file with the role "server" and a bullet: the role is in the
\* library as "Server" with that bullet, the built-in Server is not
C25_Witness ==
    /\ call = "load_job_history_library"
    /\ arg.name = "roles.txt"
    /\ Len(ret) = 4
    /\ ret[1] = [role |-> "Server", bullets |-> <<"Cash">>]

-----------------------------------------------------------------------------
(* Properties of the loops of parse_jobs *)

InParseJobs == call \in {"while", "scan", "append"}

\* from one head of the outer loop to the next, i grows
OuterIndexGrows ==
    (InParseJobs /\ call' = "while") => ret'.i > ret.i

\* i and j never go back
NeverBackwards ==
    InParseJobs => (ret'.i >= ret.i /\ ret'.j >= ret.j)

JobsReturned ==
    (call = "return") =>
        /\ Len(ret.out) <= MAX_JOBS
        /\ \A n \in 1..Len(ret.out) : Len(ret.out[n].bullets) <= MAX_BULLETS_PER_JOB
        /\ ret.out = parse_jobs(arg)

\* C26: parse_jobs returns for every text: each pass of the outer loop ends
\* with a greater line index, the inner scan never goes back, and the
\* function returns at most 3 jobs of at most 4 bullets each.
C26_ParseJobsTerminates ==
    /\ <>(call = "return")
    /\ [][OuterIndexGrows /\ NeverBackwards]_vars
    /\ []JobsReturned

\* four head lines with a bullet each: three jobs are returned, the fourth
\* head line is not read
C26_Witness ==
    /\ call = "return"
    /\ Len(ret.lines) = 8
    /\ Len(ret.out) = MAX_JOBS
    /\ ret.i = 7
    /\ ret.out[3].bullets = <<"Dug">>

-----------------------------------------------------------------------------
(* Properties of the skills text areas *)

\* C27: at a Generate click the three skills values of the form are what
\* the three skills text areas show, typed text included.
C27_TypedSkillsReachTheForm ==
    (call = "generate") =>
        \A k \in SkillAreas : FormOf(ss, wd)[k] = SkillsArea(ss, wd, k)

-----------------------------------------------------------------------------
(* Properties of the mined transferable skills *)

LowerLabels(labs) == {LowerStr(normalize_skill_label(labs[j])) : j \in 1..Len(labs)}

\* C29: every skill suggested for a text is, as a normalised label and
\* whatever its letter case, in the Transferable list mined from that text.
C29_SuggestedSkillsAreMined ==
    (call = "mine_resume_skills") =>
        LowerLabels(suggest_transferable_skills_from_text(arg.full_text))
            \subseteq LowerLabels(ret["Transferable"])

-----------------------------------------------------------------------------
(* Properties of clean_bullet *)

StartsWithFiller(s) == Ends(FILLER_LEADS, s, 0) # <<>>

\* C30: a cleaned bullet starts with no filler phrase, ends with no full
\* stop and has at most 24 words, and cleaning it again gives the same
\* bullet.
C30_CleanBulletIsIdempotent ==
    /\ (call = "clean_bullet") =>
           /\ ~StartsWithFiller(ret)
           /\ (ret = "" \/ At(ret, Len(ret)) # ".")
           /\ Len(WordsOf(ret, "")) <= BULLET_WORDS
    /\ (call = "trim") => ret = arg

====
